---- MODULE Spec2Model ----
(***************************************************************************)
(* Model of ensembl.utils.database: the test-database lifecycle manager    *)
(* (UnitTestDB) and the session scopes of the connection wrapper           *)
(* (DBConnection), over an abstract relational backend.                    *)
(*                                                                         *)
(* The backend is a map from database name to its content (tables,         *)
(* foreign-key references, rows).  The three sqlalchemy_utils functions    *)
(* (database_exists, create_database, drop_database), the engine, the      *)
(* session and the reflection are modelled by what the code relies on.     *)
(***************************************************************************)
EXTENDS Integers, Sequences, FiniteSets, TLC

\* ------------------------------------------------------------------ bounds
MaxStmts == 2       \* statements in a table.sql file
MaxPending == 2     \* objects added to a session and not yet flushed
MaxArgs == 2        \* options on a command line with logging arguments
MaxLogCalls == 3    \* calls of init_logging
MaxInsts == 3       \* UnitTestDB instances constructed in one run
PathDepth == 5      \* a destination path and its ancestors, up to the root

\* --------------------------------------------------------------- vocabulary
TEST_USERNAME == "pytestuser"
Tables == {"gibberish", "other"}
Keys == {1, 2}                   \* the keys of the rows in play
SessTable == "gibberish"         \* the mapped class the session bodies use
Names == {"", "renamed_db"}      \* the `name` argument; "" is None or empty
DirNames == {"mock_db"}          \* last component of dump_dir
Dialects == {"sqlite", "mysql"}
NoErr == "none"

\* A database's content.  exists = FALSE is the absent database.
Absent == [exists |-> FALSE, tables |-> {}, refs |-> {}, rows |-> {}]
EmptyDb == [exists |-> TRUE, tables |-> {}, refs |-> {}, rows |-> {}]
\* What an earlier run may have left behind under a name.
StaleDb ==
    [exists |-> TRUE, tables |-> {"other"}, refs |-> {},
     rows |-> {<<"other", 2>>}]

\* The statements of table.sql, as split on ";".
\* ref = "" is a table without a foreign key.
Statements ==
    {[op |-> "create", table |-> "gibberish", ref |-> ""],
     [op |-> "create", table |-> "gibberish", ref |-> "other"],
     [op |-> "create", table |-> "other", ref |-> ""],
     [op |-> "bad", table |-> "", ref |-> ""],
     [op |-> "blank", table |-> "", ref |-> ""]}

SeqsUpTo(S, n) == UNION {[1..k -> S] : k \in 0..n}

\* A dump directory: table.sql (if any) and the <table>.txt files, each a set
\* of rows.  given = FALSE is dump_dir = None.
NoDump ==
    [given |-> FALSE, dir |-> "", hasSql |-> FALSE, stmts |-> <<>>,
     data |-> [t \in {} |-> {}]]
DataRowSets == {{1}}
DataFiles == UNION {[ts -> DataRowSets] : ts \in SUBSET Tables}
DumpDirs ==
    {[given |-> TRUE, dir |-> d, hasSql |-> h, stmts |-> s, data |-> f] :
        d \in DirNames, h \in BOOLEAN, s \in SeqsUpTo(Statements, MaxStmts),
        f \in DataFiles}
Dumps == {NoDump} \cup {d \in DumpDirs : d.hasSql \/ d.stmts = <<>>}

\* A schema descriptor (sqlalchemy MetaData).  given = FALSE is None.
NoMetadata == [given |-> FALSE, tables |-> {}]
Metadatas ==
    {NoMetadata} \cup {[given |-> TRUE, tables |-> ts] : ts \in {{}, {"gibberish"}, Tables}}

\* ------------------------------------------------- the backend's operations
\* sqlalchemy_utils.database_exists / create_database / drop_database on the
\* map from database name to content.
database_exists(be, url) == be[url].exists
create_database(be, url) == [be EXCEPT ![url] = EmptyDb]
drop_database(be, url) == [be EXCEPT ![url] = Absent]

\* One statement of table.sql on a database content: <<error, content>>.
ExecStmt(db, st) ==
    CASE st.op = "bad" -> <<"ProgrammingError", db>>
      [] st.op = "create" /\ st.table \in db.tables -> <<"OperationalError", db>>
      [] st.op = "create" ->
            <<NoErr, [db EXCEPT !.tables = @ \cup {st.table},
                                !.refs = @ \cup (IF st.ref = "" THEN {}
                                                 ELSE {<<st.table, st.ref>>})]>>
      [] OTHER -> <<NoErr, db>>

\* "for query in ...split(';'): if query.strip(): conn.execute(text(query))":
\* the statements in file order, blank ones skipped, stopping at the first error.
RECURSIVE ExecStmts(_, _)
ExecStmts(db, stmts) ==
    IF stmts = <<>> THEN <<NoErr, db>>
    ELSE IF Head(stmts).op = "blank" THEN ExecStmts(db, Tail(stmts))
    ELSE LET r == ExecStmt(db, Head(stmts))
         IN IF r[1] # NoErr THEN r ELSE ExecStmts(r[2], Tail(stmts))

SetMin(S) == CHOOSE x \in S : \A y \in S : x <= y

\* UnitTestDB._load_data: one <table>.txt into its table: <<error, content>>.
\* sqlite3's ".import" creates a missing table, taking the first row as the
\* header; the bulk statements of the server dialects fail on a missing table.
load_data(dialect, db, table, rows) ==
    IF table \in db.tables
    THEN <<NoErr, [db EXCEPT !.rows = @ \cup {<<table, k>> : k \in rows}]>>
    ELSE IF dialect = "sqlite"
    THEN IF rows = {} THEN <<NoErr, db>>
         ELSE <<NoErr, [db EXCEPT !.tables = @ \cup {table},
                                  !.rows = @ \cup {<<table, k>> : k \in rows \ {SetMin(rows)}}]>>
    ELSE <<"ProgrammingError", db>>

\* "for tsv_file in Path(dump_dir).glob('*.txt')": every data file, in the
\* order the directory lists them (here: by table name).
RECURSIVE LoadFiles(_, _, _, _)
LoadFiles(dialect, db, data, todo) ==
    IF todo = {} THEN <<NoErr, db>>
    ELSE LET t == CHOOSE x \in todo : \A y \in todo : x = y \/ x = "gibberish"
             r == load_data(dialect, db, t, data[t])
         IN IF r[1] # NoErr THEN r ELSE LoadFiles(dialect, r[2], data, todo \ {t})

\* A variant of the schema part that runs table.sql after the descriptor.
LoadSchema_Both(db, dump, metadata) ==
    LET md == IF metadata.given THEN [db EXCEPT !.tables = @ \cup metadata.tables] ELSE db
    IN IF dump.given
       THEN IF ~dump.hasSql THEN <<"FileNotFoundError", md>>
            ELSE ExecStmts(md, dump.stmts)
       ELSE <<NoErr, md>>

\* The schema part of UnitTestDB._load_schema_and_data.
LoadSchema(db, dump, metadata) ==
    IF metadata.given
    THEN <<NoErr, [db EXCEPT !.tables = @ \cup metadata.tables]>>
    ELSE IF dump.given
    THEN IF ~dump.hasSql THEN <<"FileNotFoundError", db>>
         ELSE ExecStmts(db, dump.stmts)
    ELSE <<NoErr, db>>

\* Mutant: the data files are loaded before the schema.
load_schema_and_data_DataFirst(dialect, db, dump, metadata) ==
    LET f == IF dump.given THEN LoadFiles(dialect, db, dump.data, DOMAIN dump.data)
             ELSE <<NoErr, db>>
    IN IF f[1] # NoErr THEN f ELSE LoadSchema(f[2], dump, metadata)

\* UnitTestDB._load_schema_and_data: <<error, content>>.
load_schema_and_data(dialect, db, dump, metadata) ==
    LET s == LoadSchema(db, dump, metadata)
    IN IF s[1] # NoErr THEN s
       ELSE IF dump.given
       THEN LoadFiles(dialect, s[2], dump.data, DOMAIN dump.data)
       ELSE s

\* MetaData.reflect(): fails on a foreign key whose target table is absent.
Reflectable(db) == \A fk \in db.refs : fk[2] \in db.tables

\* ------------------------------------------------------------------- state
VARIABLES
    dialect,        \* dialect of the server URL (--server)
    transactional,  \* whether the tables' storage engine supports rollback
    backend,        \* database name -> content, as the open connection sees it
    pc,             \* the UnitTestDB object: none, ready, failed, dropped
    self,           \* identity of the UnitTestDB object
    db_url,         \* the database the last constructor computed
    dbc,            \* self.dbc: url, schema snapshot, pool disposed
    raised,         \* the exception the last operation let reach its caller
    lastOp,         \* the last operation that ran
    setupErr,       \* the exception raised inside the constructor's try block
    prior,          \* what the backend held under db_url before the constructor
    inputTables,    \* tables the last constructor's arguments define
    inputRows,      \* rows the last constructor's data files hold
    dumpInfo,       \* the last constructor's dump: valid, metadata given, tables
    withState,      \* "with UnitTestDB(...) as x": none, body
    asTarget,       \* what __enter__ returned
    bodyExc,        \* the exception that left the with body
    scope,          \* open session scope: none, session, test
    sess,           \* the session: pending objects, transaction, rollback target
    outer,          \* test scope: the connection and its outer transaction
    entryRows,      \* rows of the database when the scope was entered
    committed,      \* rows the scope body has committed with session.commit()
    lastFlush,      \* how many objects the last flush had to insert
    scopeExc,       \* the exception that left the scope body
    calls,          \* the calls the last scope exit made, in order
    conns,          \* DBConnection wrappers on one database: wrapper -> state
    connOp,         \* the last operation on a wrapper: op, wrapper, table
    result,         \* what the last operation on a wrapper returned
    prevSnap,       \* the wrapper's snapshot before its last operation
    nameArgs,       \* arguments the test database's name was computed from
    dbName,         \* the database name computed from nameArgs
    arg,            \* a numeric argument: text, type, min_value, max_value
    parsed,         \* what _validate_number made of arg
    registered,     \* the arguments the parser holds after add_numeric_argument
    dstArg,         \* a destination path handed to _validate_dst_path: fs, exists_ok
    dstResult,      \* what _validate_dst_path made of dstArg
    parser,         \* an ArgumentParser: its server groups and its other arguments
    argv,           \* the command line of the last parse_args
    arguments,      \* what the last parse_args returned, or its parse error
    logCmd,         \* a parser with add_log_arguments(add_log_file) and a command line
    logNs,          \* what parsing logCmd returned, or its parse error
    root,           \* logging.root: its level and its handlers
    logCall,        \* the last init_logging call: its number, arguments and exception
    insts,          \* the UnitTestDB instances constructed so far, in order
    created,        \* db_factory's cache, in insertion order: key and instance
    fixture,        \* the db_factory fixture: none, active, finished or failed
    keep_dbs,       \* the --keep-dbs option
    factOp,         \* the last step on instances: what it was and what it did
    loadArg,        \* the arguments of a _load_schema_and_data call and its dialect
    loadOut         \* that call's exception, if any, and the database afterwards

envVars == <<dialect, transactional>>
objVars == <<pc, self, db_url, dbc, setupErr, prior, inputTables, inputRows, dumpInfo>>
withVars == <<withState, asTarget, bodyExc>>
scopeVars == <<scope, sess, outer, entryRows, committed, lastFlush, scopeExc, calls>>
connVars == <<conns, connOp, result, prevSnap>>
nameVars == <<nameArgs, dbName>>
argVars == <<arg, parsed, registered>>
pathVars == <<dstArg, dstResult>>
srvVars == <<parser, argv, arguments>>
logArgVars == <<logCmd, logNs>>
logVars == <<root, logCall>>
factVars == <<insts, created, fixture, keep_dbs, factOp>>
loadVars == <<loadArg, loadOut>>
extVars == <<pathVars, srvVars, logArgVars, logVars, factVars, loadVars>>
otherVars == <<connVars, nameVars, argVars, extVars>>
lifeVars == <<objVars, withVars, scopeVars>>
vars == <<envVars, backend, objVars, raised, lastOp, withVars, scopeVars, otherVars>>

\* ------------------------------------------------------------ UnitTestDB
\* db_name of UnitTestDB.__init__: "<user>_<name>", with the ".db" suffix of
\* the sqlite file.  Names are kept as tuples of their parts.
\* Mutant: the directory of the dump wins over the name given.
LogicalName_DumpFirst(dump, name) ==
    IF dump.given THEN dump.dir ELSE IF name # "" THEN name ELSE "testdb"

LogicalName(dump, name) ==
    IF name # "" THEN name ELSE IF dump.given THEN dump.dir ELSE "testdb"
\* f"{TEST_USERNAME}_{name}"
DbName(logical) == <<TEST_USERNAME, "_", logical>>
\* The database of the URL: the sqlite file "<tmp_path>/<db_name>.db", or
\* "<db_name>.db" without tmp_path; db_name itself for the servers.
Database(dia, logical, tmp_path) ==
    IF dia = "sqlite"
    THEN (IF tmp_path # "" THEN <<tmp_path, "/">> ELSE <<>>)
            \o DbName(logical) \o <<".db">>
    ELSE DbName(logical)
\* The constructions of the model are given no tmp_path.
DbUrl(dia, dump, name) == Database(dia, LogicalName(dump, name), "")
DbUrls(dia) ==
    {Database(dia, n, "") : n \in (Names \ {""}) \cup DirNames \cup {"testdb"}}

\* connect_args of the wrapper's engine: local_infile for MySQL only.
ConnectArgs(dia) == IF dia = "mysql" THEN {"local_infile"} ELSE {}

NoDbc == [url |-> <<>>, loaded |-> FALSE, tables |-> {}, disposed |-> FALSE]
\* DBConnection(url, reflect=False): no snapshot yet.
NewDbc(url) == [url |-> url, loaded |-> FALSE, tables |-> {}, disposed |-> FALSE]

\* Tables that reflect on their own: no foreign key to a missing table.
ReflectableTables(db) ==
    {t \in db.tables : \A fk \in db.refs : fk[1] = t => fk[2] \in db.tables}

\* Mutant: the reflection is merged into the MetaData already held.
load_metadata_Merge(d, be, seen) ==
    IF Reflectable(be[d.url])
    THEN <<NoErr, [d EXCEPT !.loaded = TRUE, !.tables = @ \cup be[d.url].tables]>>
    ELSE <<"NoSuchTableError", [d EXCEPT !.loaded = TRUE, !.tables = @ \cup seen]>>

\* DBConnection.load_metadata: self._metadata becomes a new MetaData, which
\* the reflection then fills with the backend's tables.  When the reflection
\* raises, the new MetaData holds the tables it had got to before (seen).
load_metadata(d, be, seen) ==
    IF Reflectable(be[d.url])
    THEN <<NoErr, [d EXCEPT !.loaded = TRUE, !.tables = be[d.url].tables]>>
    ELSE <<"NoSuchTableError", [d EXCEPT !.loaded = TRUE, !.tables = seen]>>

\* Mutant: the existing database is kept and built upon.
CreateFresh_KeepExisting(be, url) ==
    IF database_exists(be, url) THEN be ELSE create_database(be, url)

\* "if database_exists(db_url): drop_database(db_url)" then create_database.
CreateFresh(be, url) ==
    create_database(IF database_exists(be, url) THEN drop_database(be, url) ELSE be, url)

\* Mutant: the except clause re-raises without dropping the database.
InitFailure_NoDrop(be, url, err) == [backend |-> be, raised |-> err]

\* Mutant: the except clause raises an error of its own in place of the
\* one it caught.
InitFailure_WrongError(be, url, err) ==
    [backend |-> drop_database(be, url), raised |-> "RuntimeError"]

\* The except clause of the constructor: drop the database, re-raise.
InitFailure(be, url, err) ==
    [backend |-> drop_database(be, url), raised |-> err]

\* The try block of the constructor: open the wrapper's connection (which the
\* driver may refuse when given connect_args) and load schema and data.
InitTry(dia, db, dump, metadata, driverAccepts) ==
    IF ConnectArgs(dia) # {} /\ ~driverAccepts
    THEN <<"OperationalError", db>>
    ELSE load_schema_and_data(dia, db, dump, metadata)

\* What the constructor's arguments define, for comparison with the content
\* of the database it made.
TablesOf(dump, metadata) ==
    (IF metadata.given THEN metadata.tables ELSE {})
    \cup {dump.stmts[i].table :
            i \in {j \in 1..Len(dump.stmts) : dump.stmts[j].op = "create"}}
    \cup DOMAIN dump.data
RowsOf(dump) == UNION {{<<t, k>> : k \in dump.data[t]} : t \in DOMAIN dump.data}

\* The tables that the statements of table.sql create.
SqlTables(dump) ==
    {dump.stmts[i].table :
        i \in {j \in 1..Len(dump.stmts) : dump.stmts[j].op = "create"}}

\* A valid dump directory: table.sql is there and runs on an empty database,
\* leaving no foreign key without its table, and every <table>.txt belongs
\* to a table of the schema.
ValidDump(dump) ==
    /\ dump.given /\ dump.hasSql
    /\ \A i \in 1..Len(dump.stmts) : dump.stmts[i].op # "bad"
    /\ \A i, j \in 1..Len(dump.stmts) :
          (i # j /\ dump.stmts[i].op = "create" /\ dump.stmts[j].op = "create")
             => dump.stmts[i].table # dump.stmts[j].table
    /\ \A i \in 1..Len(dump.stmts) :
          dump.stmts[i].ref # "" => dump.stmts[i].ref \in SqlTables(dump)
    /\ DOMAIN dump.data \subseteq SqlTables(dump)
NoDumpInfo == [valid |-> FALSE, metadata |-> FALSE, sqlTables |-> {}]

NoSess == [pending |-> <<>>, inTxn |-> FALSE, snap |-> {}, closed |-> TRUE]
NoOuter ==
    [connOpen |-> FALSE, txn |-> "none", snap |-> {}, v2 |-> TRUE, savepoints |-> TRUE]

NoObject ==
    /\ pc = "none" /\ self = "nil" /\ db_url = <<>> /\ dbc = NoDbc
    /\ setupErr = NoErr /\ prior = Absent /\ inputTables = {} /\ inputRows = {}
    /\ dumpInfo = NoDumpInfo
NoWith == withState = "none" /\ asTarget = "nil" /\ bodyExc = NoErr
NoScope ==
    /\ scope = "none" /\ sess = NoSess /\ outer = NoOuter
    /\ entryRows = {} /\ committed = {} /\ lastFlush = 0
    /\ scopeExc = NoErr /\ calls = <<>>

\* The wrappers of the second component, the name and the numeric argument:
\* nothing built, computed or parsed yet.
ConnIds == {"dbc1", "dbc2"}
NoConnOp == [op |-> "none", w |-> "", table |-> ""]
NoResult == [err |-> NoErr, cols |-> <<>>]
NoConns ==
    /\ conns = [w \in ConnIds |-> NoDbc] /\ connOp = NoConnOp
    /\ result = NoResult /\ prevSnap = {}
NoNameArgs == [dialect |-> "", dump_dir |-> "", name |-> "", tmp_path |-> ""]
NoName == nameArgs = NoNameArgs /\ dbName = <<>>
NoArg ==
    /\ arg = [value |-> "", type |-> "", min_value |-> <<>>, max_value |-> <<>>]
    /\ parsed = [status |-> "none", value |-> <<>>, why |-> ""]
    /\ registered = {}

NoDst ==
    /\ dstArg = [fs |-> <<>>, exists_ok |-> FALSE]
    /\ dstResult = [status |-> "none", why |-> ""]

NoParser ==
    /\ parser = [groups |-> <<>>, dests |-> {}]
    /\ argv = <<>>
    /\ arguments = [status |-> "none", ns |-> <<>>, why |-> ""]

NoLogArgs ==
    /\ logCmd = [add_log_file |-> FALSE, args |-> <<>>]
    /\ logNs = [status |-> "none", log_level |-> "", log_file_level |-> "", why |-> ""]

\* The root logger of a new interpreter: level WARNING, no handler.
NoLogging ==
    /\ root = [level |-> 30, handlers |-> <<>>]
    /\ logCall = [n |-> 0, log_level |-> <<>>, log_file |-> "", log_file_level |-> <<>>,
                  raised |-> NoErr]

NoFactOp == [op |-> "none", key |-> "", cached |-> FALSE, returned |-> 0, ops |-> <<>>,
             raised |-> NoErr]
NoFactory ==
    /\ insts = <<>>
    /\ created = <<>>
    /\ fixture = "none"
    /\ keep_dbs = FALSE
    /\ factOp = NoFactOp

NoLoad ==
    /\ loadArg = [dialect |-> "", dump_dir |-> NoDump, metadata |-> NoMetadata]
    /\ loadOut = <<"unset", Absent>>

NoExt == NoDst /\ NoParser /\ NoLogArgs /\ NoLogging /\ NoFactory /\ NoLoad

Init ==
    /\ NoConns /\ NoName /\ NoArg /\ NoExt
    /\ dialect \in Dialects
    /\ transactional \in BOOLEAN
    /\ (dialect = "sqlite" => transactional)
    /\ backend \in [DbUrls(dialect) -> {Absent, StaleDb}]
    /\ raised = NoErr /\ lastOp = "start"
    /\ NoObject /\ NoWith /\ NoScope

\* UnitTestDB.__init__(server_url, dump_dir, name, metadata).
UnitTestDB_init(dump, name, metadata, driverAccepts) ==
    /\ pc = "none"
    /\ LET url == DbUrl(dialect, dump, name)
           be1 == CreateFresh(backend, url)
           try == InitTry(dialect, be1[url], dump, metadata, driverAccepts)
           be2 == [be1 EXCEPT ![url] = try[2]]
           fail == InitFailure(be2, url, try[1])
           meta == load_metadata(NewDbc(url), be2, {})
       IN /\ db_url' = url
          /\ self' = "obj"
          /\ setupErr' = try[1]
          /\ prior' = backend[url]
          /\ inputTables' = TablesOf(dump, metadata)
          /\ inputRows' = RowsOf(dump)
          /\ dumpInfo' = IF ValidDump(dump)
                         THEN [valid |-> TRUE, metadata |-> metadata.given,
                               sqlTables |-> SqlTables(dump)]
                         ELSE NoDumpInfo
          /\ IF try[1] # NoErr
             THEN /\ backend' = fail.backend
                  /\ raised' = fail.raised
                  /\ pc' = "failed"
                  /\ dbc' = NoDbc
             ELSE /\ backend' = be2
                  /\ raised' = meta[1]
                  /\ pc' = IF meta[1] = NoErr THEN "ready" ELSE "failed"
                  /\ dbc' = IF meta[1] = NoErr THEN meta[2] ELSE NoDbc
    /\ lastOp' = "init"
    /\ UNCHANGED <<envVars, otherVars, withVars, scopeVars>>

\* Mutant: drop() forgets to dispose of the pool.
Drop_NoDispose(dia, be, d) ==
    IF database_exists(be, d.url)
    THEN [backend |-> drop_database(be, d.url), dbc |-> d, raised |-> NoErr]
    ELSE [backend |-> be, dbc |-> d,
          raised |-> IF dia = "sqlite" THEN "FileNotFoundError"
                     ELSE "OperationalError"]

\* Mutant: dropping a database that is not there is ignored.
Drop_IgnoreMissing(dia, be, d) ==
    [backend |-> drop_database(be, d.url),
     dbc |-> [d EXCEPT !.disposed = TRUE], raised |-> NoErr]

\* Mutant: a drop that finds no database creates an empty one.
Drop_Recreates(dia, be, d) ==
    IF database_exists(be, d.url)
    THEN [backend |-> drop_database(be, d.url),
          dbc |-> [d EXCEPT !.disposed = TRUE], raised |-> NoErr]
    ELSE [backend |-> create_database(be, d.url), dbc |-> d,
          raised |-> IF dia = "sqlite" THEN "FileNotFoundError"
                     ELSE "OperationalError"]

\* UnitTestDB.drop: drop_database(self.dbc.url), then self.dbc.dispose().
\* Dropping a database that does not exist is the backend's error.
Drop(dia, be, d) ==
    IF database_exists(be, d.url)
    THEN [backend |-> drop_database(be, d.url),
          dbc |-> [d EXCEPT !.disposed = TRUE], raised |-> NoErr]
    ELSE [backend |-> be, dbc |-> d,
          raised |-> IF dia = "sqlite" THEN "FileNotFoundError"
                     ELSE "OperationalError"]

drop ==
    /\ pc \in {"ready", "dropped"}
    /\ withState = "none" /\ scope = "none"
    /\ LET r == Drop(dialect, backend, dbc)
       IN /\ backend' = r.backend
          /\ dbc' = r.dbc
          /\ raised' = r.raised
    /\ pc' = "dropped"
    /\ lastOp' = "drop"
    /\ UNCHANGED <<envVars, otherVars, self, db_url, setupErr, prior, inputTables, inputRows, dumpInfo,
                   withVars, scopeVars>>

\* UnitTestDB.__enter__: return self.
Enter(me) == me

with_enter ==
    /\ pc = "ready" /\ withState = "none" /\ scope = "none"
    /\ withState' = "body"
    /\ asTarget' = Enter(self)
    /\ bodyExc' = NoErr
    /\ raised' = NoErr
    /\ lastOp' = "enter"
    /\ UNCHANGED <<envVars, otherVars, backend, objVars, scopeVars>>

\* Mutant: __exit__ drops the database only when the body ended normally.
Exit_OnlyOnSuccess(dia, be, d, exc) ==
    IF exc = NoErr
    THEN [backend |-> drop_database(be, d.url),
          dbc |-> [d EXCEPT !.disposed = TRUE], raised |-> NoErr]
    ELSE [backend |-> be, dbc |-> d, raised |-> exc]

\* UnitTestDB.__exit__(*args): self.drop(); returns None, so an exception of
\* the body keeps propagating, unless drop() itself raises.
Exit(dia, be, d, exc) ==
    LET r == Drop(dia, be, d)
    IN [backend |-> r.backend, dbc |-> r.dbc,
        raised |-> IF r.raised # NoErr THEN r.raised ELSE exc]

\* The with body ends: normally or with an exception.
with_exit(exc) ==
    /\ withState = "body" /\ scope = "none"
    /\ LET r == Exit(dialect, backend, dbc, exc)
       IN /\ backend' = r.backend
          /\ dbc' = r.dbc
          /\ raised' = r.raised
    /\ bodyExc' = exc
    /\ withState' = "none"
    /\ pc' = "dropped"
    /\ lastOp' = "exit"
    /\ UNCHANGED <<envVars, otherVars, self, db_url, setupErr, prior, inputTables, inputRows, dumpInfo,
                   asTarget, scopeVars>>

\* ---------------------------------------------------------- the session
\* ROLLBACK (or ROLLBACK TO SAVEPOINT) back to the rows of `snap`; a storage
\* engine without transactions (MyISAM) keeps what was written.
RollbackTo(tr, rows, snap) == IF tr THEN snap ELSE rows

\* The INSERTs of a flush, one per pending object, in the order they were
\* added; a row whose key exists is an IntegrityError.
RECURSIVE InsertAll(_, _)
InsertAll(rows, ks) ==
    IF ks = <<>> THEN <<NoErr, rows>>
    ELSE IF <<SessTable, Head(ks)>> \in rows THEN <<"IntegrityError", rows>>
    ELSE InsertAll(rows \cup {<<SessTable, Head(ks)>>}, Tail(ks))

\* The session begins its transaction on first use (autobegin).
Begin(s, rows) == IF s.inTxn THEN s ELSE [s EXCEPT !.inTxn = TRUE, !.snap = rows]

\* Session.flush: a failed flush rolls the session's transaction back.
Flush(tr, hasTable, rows, s) ==
    IF s.pending = <<>> THEN [err |-> NoErr, rows |-> rows, sess |-> s]
    ELSE LET b == Begin(s, rows)
             r == IF hasTable THEN InsertAll(rows, s.pending)
                  ELSE <<"OperationalError", rows>>
         IN IF r[1] = NoErr
            THEN [err |-> NoErr, rows |-> r[2], sess |-> [b EXCEPT !.pending = <<>>]]
            ELSE [err |-> r[1], rows |-> RollbackTo(tr, r[2], b.snap),
                  sess |-> [b EXCEPT !.inTxn = FALSE]]

\* Session.commit: flush, then end the session's transaction, keeping its rows.
Commit(tr, hasTable, rows, s) ==
    LET f == Flush(tr, hasTable, rows, s)
    IN IF f.err # NoErr THEN f
       ELSE [err |-> NoErr, rows |-> f.rows, sess |-> [f.sess EXCEPT !.inTxn = FALSE]]

\* Session.rollback: forget the pending objects, undo the open transaction.
Rollback(tr, rows, s) ==
    [rows |-> IF s.inTxn THEN RollbackTo(tr, rows, s.snap) ELSE rows,
     sess |-> [s EXCEPT !.pending = <<>>, !.inTxn = FALSE]]

\* Session.close: release the connection, undoing what was not committed.
Close(tr, rows, s) ==
    LET r == Rollback(tr, rows, s)
    IN [rows |-> r.rows, sess |-> [r.sess EXCEPT !.closed = TRUE, !.snap = {}]]

\* Mutant: the scope swallows the exception of its body.
SessionScopeExit_Swallow(tr, hasTable, rows, s, o, exc) ==
    LET c == Commit(tr, hasTable, rows, s)
        r == Rollback(tr, IF exc = NoErr THEN c.rows ELSE rows,
                      IF exc = NoErr THEN c.sess ELSE s)
        z == Close(tr, r.rows, r.sess)
    IN IF exc = NoErr /\ c.err = NoErr
       THEN [rows |-> Close(tr, c.rows, c.sess).rows, sess |-> Close(tr, c.rows, c.sess).sess,
             outer |-> o, raised |-> NoErr, calls |-> <<"commit", "close">>]
       ELSE [rows |-> z.rows, sess |-> z.sess, outer |-> o, raised |-> NoErr,
             calls |-> IF exc = NoErr THEN <<"commit", "rollback", "close">>
                       ELSE <<"rollback", "close">>]

\* Mutant: the commit sits in the finally clause, so it runs on every path.
SessionScopeExit_CommitAlways(tr, hasTable, rows, s, o, exc) ==
    LET c == Commit(tr, hasTable, rows, s)
        z == Close(tr, c.rows, c.sess)
    IN [rows |-> z.rows, sess |-> z.sess, outer |-> o,
        raised |-> IF exc # NoErr THEN exc ELSE c.err,
        calls |-> <<"commit", "close">>]

\* DBConnection.session_scope after the yield: commit on a normal exit; on
\* an exception (of the body or of the commit) roll back and re-raise; close.
SessionScopeExit(tr, hasTable, rows, s, o, exc) ==
    IF exc = NoErr
    THEN LET c == Commit(tr, hasTable, rows, s)
         IN IF c.err = NoErr
            THEN LET z == Close(tr, c.rows, c.sess)
                 IN [rows |-> z.rows, sess |-> z.sess, outer |-> o,
                     raised |-> NoErr, calls |-> <<"commit", "close">>]
            ELSE LET r == Rollback(tr, c.rows, c.sess)
                     z == Close(tr, r.rows, r.sess)
                 IN [rows |-> z.rows, sess |-> z.sess, outer |-> o,
                     raised |-> c.err, calls |-> <<"commit", "rollback", "close">>]
    ELSE LET r == Rollback(tr, rows, s)
             z == Close(tr, r.rows, r.sess)
         IN [rows |-> z.rows, sess |-> z.sess, outer |-> o,
             raised |-> exc, calls |-> <<"rollback", "close">>]

\* Mutant: no finally clause: an exception of the body skips the cleanup.
TestScopeExit_NoFinally(tr, hasTable, rows, s, o, exc) ==
    IF exc # NoErr
    THEN [rows |-> rows, sess |-> s, outer |-> o, raised |-> exc, calls |-> <<>>]
    ELSE [rows |-> RollbackTo(tr, Close(tr, rows, s).rows, o.snap),
          sess |-> Close(tr, rows, s).sess,
          outer |-> [o EXCEPT !.txn = "rolledback", !.connOpen = FALSE],
          raised |-> exc,
          calls |-> <<"session.close", "transaction.rollback", "connection.close">>]

\* DBConnection.test_session_scope after the yield (the finally clause):
\* session.close(), transaction.rollback(), connection.close().
TestScopeExit(tr, hasTable, rows, s, o, exc) ==
    LET z == Close(tr, rows, s)
    IN [rows |-> RollbackTo(tr, z.rows, o.snap), sess |-> z.sess,
        outer |-> [o EXCEPT !.txn = "rolledback", !.connOpen = FALSE],
        raised |-> exc,
        calls |-> <<"session.close", "transaction.rollback", "connection.close">>]

\* The end_savepoint listener of the SQLAlchemy 1.4 branch: a new SAVEPOINT
\* as soon as the session's transaction ended.  Under 2.0 the session opens
\* its SAVEPOINT itself when it next begins (join_transaction_mode).
AfterEnd(sc, o, s, rows) ==
    IF sc = "test" /\ ~o.v2 THEN [s EXCEPT !.inTxn = TRUE, !.snap = rows] ELSE s

\* Mutant: the sqlite listeners are never installed.
enable_sqlite_savepoints_Never(dia) == FALSE

\* DBConnection._enable_sqlite_savepoints, called for the sqlite dialect: with
\* its two listeners the driver's SAVEPOINTs nest in the outer transaction;
\* without them sqlite's driver commits when a SAVEPOINT is released.
enable_sqlite_savepoints(dia) == dia = "sqlite"
SavepointsWork(dia) == dia # "sqlite" \/ enable_sqlite_savepoints(dia)

\* The outer transaction after a session.commit() of the body: the commit
\* releases the session's SAVEPOINT only.
OuterAfterCommit(o, rows) == IF o.savepoints THEN o ELSE [o EXCEPT !.snap = rows]

Rows == backend[dbc.url].rows
HasTable == SessTable \in backend[dbc.url].tables
WithRows(rows) == [backend EXCEPT ![dbc.url].rows = rows]

OpenSess == [pending |-> <<>>, inTxn |-> FALSE, snap |-> {}, closed |-> FALSE]

EnterScope(kind) ==
    /\ pc = "ready" /\ scope = "none"
    /\ scope' = kind
    /\ entryRows' = Rows /\ committed' = {} /\ lastFlush' = 0
    /\ scopeExc' = NoErr /\ calls' = <<>>
    /\ raised' = NoErr /\ lastOp' = "scope_enter"
    /\ UNCHANGED <<envVars, otherVars, backend, objVars, withVars>>

\* DBConnection.session_scope up to the yield: a session bound to a new engine.
session_scope_enter ==
    /\ EnterScope("session")
    /\ sess' = OpenSess
    /\ outer' = NoOuter

\* DBConnection.test_session_scope up to the yield: connect, begin the outer
\* transaction, bind a session to the connection.  v2: the installed
\* SQLAlchemy accepts join_transaction_mode (2.0+); else the 1.4 branch
\* begins the SAVEPOINT itself.
test_session_scope_enter(v2) ==
    /\ EnterScope("test")
    /\ outer' = [connOpen |-> TRUE, txn |-> "active", snap |-> Rows, v2 |-> v2,
                 savepoints |-> SavepointsWork(dialect)]
    /\ sess' = IF v2 THEN OpenSess
               ELSE [OpenSess EXCEPT !.inTxn = TRUE, !.snap = Rows]

\* The body goes on inside the scope.
Stay(rows, s, o) ==
    /\ backend' = WithRows(rows)
    /\ sess' = s
    /\ outer' = o
    /\ raised' = NoErr /\ lastOp' = "body"
    /\ UNCHANGED <<envVars, otherVars, objVars, withVars, scope, entryRows, scopeExc, calls>>

\* Control leaves the body, with exception exc or normally (NoErr): the rest
\* of the scope's generator runs.
Leave(exc) ==
    LET x == IF scope = "session"
             THEN SessionScopeExit(transactional, HasTable, Rows, sess, outer, exc)
             ELSE TestScopeExit(transactional, HasTable, Rows, sess, outer, exc)
    IN /\ backend' = WithRows(x.rows)
       /\ sess' = x.sess
       /\ outer' = x.outer
       /\ raised' = x.raised
       /\ calls' = x.calls
       /\ scopeExc' = exc
       /\ lastOp' = IF scope = "session" THEN "session_scope" ELSE "test_session_scope"
       /\ scope' = "none"
       /\ UNCHANGED <<envVars, otherVars, objVars, withVars, entryRows>>

\* session.add(obj) in the body.
session_add(k) ==
    /\ scope # "none"
    /\ Len(sess.pending) < MaxPending
    /\ Stay(Rows, [sess EXCEPT !.pending = Append(@, k)], outer)
    /\ UNCHANGED <<committed, lastFlush>>

\* session.flush() in the body; its error leaves the body.
session_flush ==
    /\ scope # "none"
    /\ sess.pending # <<>>
    /\ lastFlush' = Len(sess.pending)
    /\ UNCHANGED committed
    /\ LET f == Flush(transactional, HasTable, Rows, sess)
       IN IF f.err = NoErr THEN Stay(f.rows, f.sess, outer)
          ELSE /\ Leave(f.err)

\* session.commit() in the body; its error leaves the body.
session_commit ==
    /\ scope # "none"
    /\ lastFlush' = IF sess.pending # <<>> THEN Len(sess.pending) ELSE lastFlush
    /\ LET c == Commit(transactional, HasTable, Rows, sess)
       IN IF c.err = NoErr
          THEN /\ Stay(c.rows, AfterEnd(scope, outer, c.sess, c.rows),
                       IF scope = "test" THEN OuterAfterCommit(outer, c.rows) ELSE outer)
               /\ committed' = c.rows \ entryRows
          ELSE /\ Leave(c.err)
               /\ UNCHANGED committed

\* session.rollback() in the body.
session_rollback ==
    /\ scope # "none"
    /\ LET r == Rollback(transactional, Rows, sess)
       IN Stay(r.rows, AfterEnd(scope, outer, r.sess, r.rows), outer)
    /\ UNCHANGED <<committed, lastFlush>>

\* The body raises an exception of its own.
body_raise ==
    /\ scope # "none"
    /\ Leave("BodyError")
    /\ UNCHANGED <<committed, lastFlush>>

\* The body ends normally.
scope_exit ==
    /\ scope # "none"
    /\ lastFlush' = IF scope = "session" /\ sess.pending # <<>>
                    THEN Len(sess.pending) ELSE lastFlush
    /\ Leave(NoErr)
    /\ UNCHANGED committed

\* The caller lets go of the object (or of the failed construction) and of
\* the last exception; what the backend holds stays.
release ==
    /\ pc \in {"failed", "dropped"}
    /\ withState = "none" /\ scope = "none"
    /\ raised' = NoErr /\ lastOp' = "start"
    /\ pc' = "none" /\ self' = "nil" /\ db_url' = <<>> /\ dbc' = NoDbc
    /\ setupErr' = NoErr /\ prior' = Absent /\ inputTables' = {} /\ inputRows' = {}
    /\ dumpInfo' = NoDumpInfo
    /\ withState' = "none" /\ asTarget' = "nil" /\ bodyExc' = NoErr
    /\ scope' = "none" /\ sess' = NoSess /\ outer' = NoOuter
    /\ entryRows' = {} /\ committed' = {} /\ lastFlush' = 0
    /\ scopeExc' = NoErr /\ calls' = <<>>
    /\ UNCHANGED <<envVars, otherVars, backend>>

\* Dump directories whose table.sql holds at most one statement.
ShortDumps == {d \in Dumps : Len(d.stmts) <= 1}

\* A construction reads table.sql only when it is given no metadata and the
\* driver accepts the connection: the longer schema files are tried there.
Next ==
    \/ \E dump \in Dumps, name \in Names :
          UnitTestDB_init(dump, name, NoMetadata, TRUE)
    \/ \E dump \in ShortDumps, name \in Names, metadata \in Metadatas,
          ok \in IF ConnectArgs(dialect) = {} THEN {TRUE} ELSE BOOLEAN :
          /\ metadata.given \/ ~ok
          /\ UnitTestDB_init(dump, name, metadata, ok)
    \/ drop
    \/ with_enter
    \/ \E exc \in {NoErr, "BodyError"} : with_exit(exc)
    \/ release

\* The life of test databases: constructions, drops, with blocks.
Spec == Init /\ [][Next]_vars

\* ------------------------------------------------- the test database's name
\* Path(dump_dir).name: the last component of the path.
PathName(path) == path[Len(path)]

\* The dump directory at a path, as far as the name depends on it.
DumpAt(path) ==
    IF path = <<>> THEN NoDump
    ELSE [given |-> TRUE, dir |-> PathName(path), hasSql |-> FALSE, stmts |-> <<>>,
          data |-> [t \in {} |-> {}]]

NameDialects == Dialects \cup {"postgresql"}
NameNames == Names \cup {"test_drop", "test_metadata"}
NamePaths == {<<>>, <<"mock_db">>, <<"data", "mock_db">>, <<"data", "mock_dir">>}
NameTmpPaths == {"", "tmp_path", "pytest-0"}

\* The first lines of UnitTestDB.__init__: the database of the URL.
db_name(dia, dump_dir, name, tmp_path) ==
    /\ nameArgs' = [dialect |-> dia, dump_dir |-> dump_dir, name |-> name,
                    tmp_path |-> tmp_path]
    /\ dbName' = Database(dia, LogicalName(DumpAt(dump_dir), name), tmp_path)
    /\ UNCHANGED <<envVars, backend, lifeVars, raised, lastOp, connVars, argVars, extVars>>

NameInit ==
    /\ Init /\ dialect = "sqlite"
    /\ \A u \in DbUrls(dialect) : backend[u] = Absent

NameNext ==
    \E dia \in NameDialects, dump_dir \in NamePaths, name \in NameNames,
       tmp_path \in NameTmpPaths : db_name(dia, dump_dir, name, tmp_path)

NameSpec == NameInit /\ [][NameNext]_vars

\* ----------------------------------------------------------- DBConnection
\* Wrappers on one database of the server, next to plain connections to it.
ConnUrl == Database(dialect, "mock_db", "")
Built(w) == conns[w].url # <<>>

\* DBConnection.tables: the snapshot's tables, or {} without a snapshot.
dbc_tables(d) == IF d.loaded THEN d.tables ELSE {}

\* Columns of the tables, as the backend reports them.
Columns(t) == <<"id", "grp", "value">>
PrimaryKey(t) == IF t = "gibberish" THEN <<"id", "grp">> ELSE <<"id">>

\* Mutant: a table missing from the snapshot is looked up in the backend.
get_columns_NoCheck(d, t) == [err |-> NoErr, cols |-> Columns(t)]

\* DBConnection.get_columns: self.tables[table].columns.
get_columns(d, t) ==
    IF t \in dbc_tables(d) THEN [err |-> NoErr, cols |-> Columns(t)]
    ELSE [err |-> "KeyError", cols |-> <<>>]

\* DBConnection.get_primary_key_columns: self.tables[table].primary_key.
get_primary_key_columns(d, t) ==
    IF t \in dbc_tables(d) THEN [err |-> NoErr, cols |-> PrimaryKey(t)]
    ELSE [err |-> "KeyError", cols |-> <<>>]

\* DROP TABLE on a database content.
DropTable(db, t) ==
    IF t \notin db.tables THEN <<"OperationalError", db>>
    ELSE <<NoErr, [db EXCEPT !.tables = @ \ {t},
                            !.refs = {fk \in @ : fk[1] # t},
                            !.rows = {r \in @ : r[1] # t}]>>

\* table.create(self._engine): CREATE TABLE, issued without an existence check.
TableCreate(db, t) == ExecStmt(db, [op |-> "create", table |-> t, ref |-> ""])

\* metadata.create_all(self._engine): creates the tables that are missing.
CreateAll(db, metadata) == [db EXCEPT !.tables = @ \cup metadata.tables]

ConnFrame == UNCHANGED <<envVars, lifeVars, lastOp, nameVars, argVars, extVars>>

\* Mutant: the constructor reflects whatever `reflect` says.
DBConnection_init_AlwaysReflect(w, reflect, seen) ==
    /\ ~Built(w)
    /\ LET r == load_metadata(NewDbc(ConnUrl), backend, seen)
       IN /\ raised' = r[1]
          /\ conns' = IF r[1] = NoErr THEN [conns EXCEPT ![w] = r[2]] ELSE conns
    /\ connOp' = [op |-> IF reflect THEN "init_reflect" ELSE "init", w |-> w, table |-> ""]
    /\ prevSnap' = {}
    /\ result' = NoResult
    /\ UNCHANGED backend
    /\ ConnFrame

\* DBConnection(url, reflect).
DBConnection_init(w, reflect, seen) ==
    /\ ~Built(w)
    /\ LET r == IF reflect THEN load_metadata(NewDbc(ConnUrl), backend, seen)
                ELSE <<NoErr, NewDbc(ConnUrl)>>
       IN /\ raised' = r[1]
          /\ conns' = IF r[1] = NoErr THEN [conns EXCEPT ![w] = r[2]] ELSE conns
    /\ connOp' = [op |-> IF reflect THEN "init_reflect" ELSE "init", w |-> w, table |-> ""]
    /\ prevSnap' = {}
    /\ result' = NoResult
    /\ UNCHANGED backend
    /\ ConnFrame

dbc_load_metadata(w, seen) ==
    /\ Built(w)
    /\ LET r == load_metadata(conns[w], backend, seen)
       IN raised' = r[1] /\ conns' = [conns EXCEPT ![w] = r[2]]
    /\ connOp' = [op |-> "load_metadata", w |-> w, table |-> ""]
    /\ prevSnap' = dbc_tables(conns[w])
    /\ result' = NoResult
    /\ UNCHANGED backend
    /\ ConnFrame

\* DBConnection.create_all_tables: keep the given metadata as the snapshot,
\* then create its tables.
create_all_tables(w, metadata) ==
    /\ Built(w)
    /\ conns' = [conns EXCEPT ![w].loaded = TRUE, ![w].tables = metadata.tables]
    /\ backend' = [backend EXCEPT ![ConnUrl] = CreateAll(@, metadata)]
    /\ raised' = NoErr
    /\ connOp' = [op |-> "create_all_tables", w |-> w, table |-> ""]
    /\ prevSnap' = dbc_tables(conns[w])
    /\ result' = NoResult
    /\ ConnFrame

\* DBConnection.create_table: create the table, then refresh the snapshot.
create_table(w, t, seen) ==
    /\ Built(w)
    /\ LET c == TableCreate(backend[ConnUrl], t)
           be == [backend EXCEPT ![ConnUrl] = c[2]]
           r == load_metadata(conns[w], be, seen)
       IN /\ backend' = be
          /\ raised' = IF c[1] # NoErr THEN c[1] ELSE r[1]
          /\ conns' = IF c[1] # NoErr THEN conns ELSE [conns EXCEPT ![w] = r[2]]
    /\ connOp' = [op |-> "create_table", w |-> w, table |-> t]
    /\ prevSnap' = dbc_tables(conns[w])
    /\ result' = NoResult
    /\ ConnFrame

dbc_get_columns(w, t) ==
    /\ Built(w)
    /\ result' = get_columns(conns[w], t)
    /\ raised' = result'.err
    /\ connOp' = [op |-> "get_columns", w |-> w, table |-> t]
    /\ prevSnap' = dbc_tables(conns[w])
    /\ UNCHANGED <<backend, conns>>
    /\ ConnFrame

dbc_get_primary_key_columns(w, t) ==
    /\ Built(w)
    /\ result' = get_primary_key_columns(conns[w], t)
    /\ raised' = result'.err
    /\ connOp' = [op |-> "get_primary_key_columns", w |-> w, table |-> t]
    /\ prevSnap' = dbc_tables(conns[w])
    /\ UNCHANGED <<backend, conns>>
    /\ ConnFrame

\* DDL through a connection or a session of the wrapper, or by anyone else.
DDL == {st \in Statements : st.op = "create"}
           \cup {[op |-> "drop", table |-> t, ref |-> ""] : t \in Tables}

\* Mutant: DDL through a connection invalidates the snapshots.
connection_execute_Refresh(st) ==
    /\ LET r == IF st.op = "drop" THEN DropTable(backend[ConnUrl], st.table)
                ELSE ExecStmt(backend[ConnUrl], st)
       IN /\ raised' = r[1]
          /\ backend' = [backend EXCEPT ![ConnUrl] = r[2]]
          /\ conns' = [w \in ConnIds |->
                         IF conns[w].loaded THEN [conns[w] EXCEPT !.tables = r[2].tables]
                         ELSE conns[w]]
    /\ connOp' = [op |-> "execute", w |-> "", table |-> st.table]
    /\ prevSnap' = {}
    /\ result' = NoResult
    /\ ConnFrame

connection_execute(st) ==
    /\ LET r == IF st.op = "drop" THEN DropTable(backend[ConnUrl], st.table)
                ELSE ExecStmt(backend[ConnUrl], st)
       IN raised' = r[1] /\ backend' = [backend EXCEPT ![ConnUrl] = r[2]]
    /\ connOp' = [op |-> "execute", w |-> "", table |-> st.table]
    /\ prevSnap' = {}
    /\ result' = NoResult
    /\ UNCHANGED conns
    /\ ConnFrame

\* What a reflection that fails may have loaded before it failed.
Seen == SUBSET ReflectableTables(backend[ConnUrl])

ConnInit ==
    /\ Init
    /\ \A u \in DbUrls(dialect) : backend[u] = IF u = ConnUrl THEN StaleDb ELSE Absent

ConnNext ==
    \/ \E w \in ConnIds, reflect \in BOOLEAN, seen \in Seen :
          DBConnection_init(w, reflect, seen)
    \/ \E w \in ConnIds, seen \in Seen : dbc_load_metadata(w, seen)
    \/ \E w \in ConnIds, metadata \in Metadatas \ {NoMetadata} :
          create_all_tables(w, metadata)
    \/ \E w \in ConnIds, t \in Tables, seen \in Seen : create_table(w, t, seen)
    \/ \E w \in ConnIds, t \in Tables : dbc_get_columns(w, t)
    \/ \E w \in ConnIds, t \in Tables : dbc_get_primary_key_columns(w, t)
    \/ \E st \in DDL : connection_execute(st)

ConnSpec == ConnInit /\ [][ConnNext]_vars

\* The session scopes of the wrapper of one test database, built on a server
\* that holds no database yet.
ScopeInit == Init /\ \A u \in DbUrls(dialect) : ~backend[u].exists

\* Dump directories of at most one table, "gibberish".
ScopeDumps ==
    {d \in Dumps : /\ Len(d.stmts) <= 1
                   /\ \A i \in 1..Len(d.stmts) : d.stmts[i].table = "gibberish"
                   /\ DOMAIN d.data \subseteq {"gibberish"}}

ScopeNext ==
    \/ \E dump \in ScopeDumps : UnitTestDB_init(dump, "", NoMetadata, TRUE)
    \/ session_scope_enter
    \/ \E v2 \in BOOLEAN : test_session_scope_enter(v2)
    \/ \E k \in Keys : session_add(k)
    \/ session_flush
    \/ session_commit
    \/ session_rollback
    \/ body_raise
    \/ scope_exit

ScopeSpec == ScopeInit /\ [][ScopeNext]_vars

\* ------------------------------------------------- numeric arguments
\* Numbers as Python holds them: finite ones in halves (v = 5 is 2.5), the
\* float infinity, and the float nan; t is the Python type.
Fin(v, t) == [k |-> "fin", v |-> v, t |-> t]
Inf == [k |-> "inf", v |-> 0, t |-> "float"]
NaN == [k |-> "nan", v |-> 0, t |-> "float"]
None == [k |-> "none", v |-> 0, t |-> "NoneType"]

\* Python's a < b on these numbers: every comparison with nan is False.
Lt(a, b) ==
    CASE a.k = "nan" \/ b.k = "nan" -> FALSE
      [] a.k = "inf" -> FALSE
      [] b.k = "inf" -> TRUE
      [] OTHER -> a.v < b.v
Gt(a, b) == Lt(b, a)

\* int(text): [ok, num]; ok = FALSE is ValueError.
ParseInt(text) ==
    CASE text = "3" -> [ok |-> TRUE, num |-> Fin(6, "int")]
      [] text = " 3 " -> [ok |-> TRUE, num |-> Fin(6, "int")]
      [] text = "-1" -> [ok |-> TRUE, num |-> Fin(-2, "int")]
      [] OTHER -> [ok |-> FALSE, num |-> None]

\* float(text): [ok, num]; ok = FALSE is ValueError.
ParseFloat(text) ==
    CASE text = "3" -> [ok |-> TRUE, num |-> Fin(6, "float")]
      [] text = " 3 " -> [ok |-> TRUE, num |-> Fin(6, "float")]
      [] text = "-1" -> [ok |-> TRUE, num |-> Fin(-2, "float")]
      [] text = "2.5" -> [ok |-> TRUE, num |-> Fin(5, "float")]
      [] text = "1e1" -> [ok |-> TRUE, num |-> Fin(20, "float")]
      [] text = "inf" -> [ok |-> TRUE, num |-> Inf]
      [] text = "nan" -> [ok |-> TRUE, num |-> NaN]
      [] OTHER -> [ok |-> FALSE, num |-> None]

\* value_type(value)
Convert(type, text) == IF type = "int" THEN ParseInt(text) ELSE ParseFloat(text)

NumTexts == {"3", " 3 ", "-1", "2.5", "1e1", "inf", "nan", "abc", ""}
NumTypes == {"int", "float"}
NumBounds == {None, Fin(0, "int"), Fin(6, "int"), Fin(7, "float")}

\* ArgumentParser._validate_number: self.error() ends the parsing.
validate_number(value, value_type, min_value, max_value) ==
    LET c == Convert(value_type, value)
    IN IF ~c.ok THEN [status |-> "error", value |-> None, why |-> "invalid value"]
       ELSE IF min_value # None /\ Lt(c.num, min_value)
       THEN [status |-> "error", value |-> None, why |-> "lower than minimum"]
       ELSE IF max_value # None /\ Gt(c.num, max_value)
       THEN [status |-> "error", value |-> None, why |-> "greater than maximum"]
       ELSE [status |-> "ok", value |-> c.num, why |-> ""]

\* add_numeric_argument(type, min_value, max_value), then the parsing of
\* one value for that argument.
\* A variant that hands the argument to the parser before looking at the bounds.
add_numeric_argument_AddFirst(value, value_type, min_value, max_value) ==
    /\ arg' = [value |-> value, type |-> value_type,
               min_value |-> min_value, max_value |-> max_value]
    /\ registered' = {"--num"}
    /\ parsed' = IF min_value # None /\ max_value # None /\ Gt(min_value, max_value)
                 THEN [status |-> "ArgumentError", value |-> None, why |-> ""]
                 ELSE validate_number(value, value_type, min_value, max_value)
    /\ UNCHANGED <<envVars, backend, lifeVars, raised, lastOp, connVars, nameVars, extVars>>

\* add_numeric_argument on a new parser, followed by parsing one value: the
\* bounds are compared first, and only then is the argument added (line 201).
add_numeric_argument(value, value_type, min_value, max_value) ==
    /\ arg' = [value |-> value, type |-> value_type,
               min_value |-> min_value, max_value |-> max_value]
    /\ IF min_value # None /\ max_value # None /\ Gt(min_value, max_value)
       THEN /\ parsed' = [status |-> "ArgumentError", value |-> None, why |-> ""]
            /\ registered' = {}
       ELSE /\ parsed' = validate_number(value, value_type, min_value, max_value)
            /\ registered' = {"--num"}
    /\ UNCHANGED <<envVars, backend, lifeVars, raised, lastOp, connVars, nameVars, extVars>>

NumInit == NameInit

NumNext ==
    \E value \in NumTexts, value_type \in NumTypes,
       min_value \in NumBounds, max_value \in NumBounds :
       add_numeric_argument(value, value_type, min_value, max_value)

NumSpec == NumInit /\ [][NumNext]_vars

Range(f) == {f[i] : i \in DOMAIN f}

\* ------------------------------------------------ destination path (argparse)
\* A destination path on a file system: fs[1] is the path itself, fs[2] its
\* parent, and so on up to the last entry, the root (or the current directory
\* of a relative path), which always exists. Each entry is missing, or exists
\* and os.access(W_OK) answers "rw" (True) or "ro" (False). Under an existing
\* path every ancestor exists.
PathStates == {"missing", "ro", "rw"}
FileSystems ==
    {fs \in [1..PathDepth -> PathStates] :
        /\ fs[PathDepth] # "missing"
        /\ \A i \in 1..(PathDepth - 1) : fs[i] # "missing" => fs[i + 1] # "missing"}

\* The loop over dst_path.parents, from entry i upwards: the first existing
\* parent decides, then break.
RECURSIVE ParentsWritable(_, _)
ParentsWritable(fs, i) ==
    IF i > Len(fs) THEN TRUE
    ELSE IF fs[i] # "missing" THEN fs[i] = "rw"
    ELSE ParentsWritable(fs, i + 1)

\* A variant of the loop without the break: every existing parent must be
\* writable.
validate_dst_path_NoBreak(fs, exists_ok) ==
    IF fs[1] # "missing"
    THEN IF fs[1] = "rw"
         THEN IF exists_ok THEN [status |-> "ok", why |-> ""]
              ELSE [status |-> "error", why |-> "already exists"]
         ELSE [status |-> "error", why |-> "is not writable"]
    ELSE IF \A i \in 2..Len(fs) : fs[i] # "ro"
         THEN [status |-> "ok", why |-> ""]
         ELSE [status |-> "error", why |-> "is not writable"]

\* ArgumentParser._validate_dst_path: self.error() ends the parsing.
validate_dst_path(fs, exists_ok) ==
    IF fs[1] # "missing"
    THEN IF fs[1] = "rw"
         THEN IF exists_ok THEN [status |-> "ok", why |-> ""]
              ELSE [status |-> "error", why |-> "already exists"]
         ELSE [status |-> "error", why |-> "is not writable"]
    ELSE IF ParentsWritable(fs, 2)
         THEN [status |-> "ok", why |-> ""]
         ELSE [status |-> "error", why |-> "is not writable"]

\* add_argument_dst_path followed by parsing one value: the type callback is
\* _validate_dst_path with the exists_ok given at definition.
add_argument_dst_path(fs, exists_ok) ==
    /\ dstArg' = [fs |-> fs, exists_ok |-> exists_ok]
    /\ dstResult' = validate_dst_path(fs, exists_ok)
    /\ UNCHANGED <<envVars, backend, lifeVars, raised, lastOp, connVars, nameVars, argVars, srvVars, logArgVars,
                   logVars, factVars, loadVars>>

PathInit == NameInit

PathNext ==
    \E fs \in FileSystems, exists_ok \in BOOLEAN : add_argument_dst_path(fs, exists_ok)

PathSpec == PathInit /\ [][PathNext]_vars

\* ------------------------------------------------ server groups (argparse)
\* The attribute "<prefix><field>" of a namespace.
Attr(prefix, field) == <<prefix, field>>
Prefixes == {"", "src_"}
ServerFields == {"host", "port", "user", "password", "database"}

\* What a command line holds for one prefix: nothing, or --<prefix>host,
\* --<prefix>port and --<prefix>user with, possibly, --<prefix>password and
\* --<prefix>database. Unset stands for Python's None: an option that is not given.
Unset == "None"
NoOptions == [host |-> Unset, port |-> Unset, user |-> Unset, password |-> Unset, database |-> Unset]
GroupOptions ==
    {NoOptions,
     [host |-> "lugh", port |-> "x", user |-> "username", password |-> Unset, database |-> Unset]}
    \cup [host : {"lugh", "dagda"}, port : {"42"}, user : {"username"},
          password : {Unset, "***"}, database : {Unset, "my_db"}]
Argvs == [Prefixes -> GroupOptions]

\* int(text) for a port: [ok, num]; ok = FALSE is ValueError.
ParsePort(text) ==
    IF text = "42" THEN [ok |-> TRUE, num |-> 42] ELSE [ok |-> FALSE, num |-> 0]

\* sqlalchemy.engine.URL.create("mysql", user, password, host, port, database)
URL_create(username, password, host, port, database) ==
    [drivername |-> "mysql", username |-> username, password |-> password,
     host |-> host, port |-> port, database |-> database]

GroupPrefixes(p) == {p.groups[i].prefix : i \in DOMAIN p.groups}
Group(p, prefix) == CHOOSE g \in Range(p.groups) : g.prefix = prefix

\* The options of a parser: for each, whether it is required.
Registered(p, prefix, field) ==
    \/ /\ prefix \in GroupPrefixes(p)
       /\ field \in {"host", "port", "user", "password"}
    \/ /\ prefix \in GroupPrefixes(p)
       /\ field = "database" /\ Group(p, prefix).include_database
    \/ Attr(prefix, field) \in p.dests
Required(p, prefix, field) ==
    /\ prefix \in GroupPrefixes(p)
    /\ field \in {"host", "port", "user", "database"}
    /\ Registered(p, prefix, field)

\* argparse's own parse_args: an option that is not registered, a port that
\* is no integer and a required option that is missing are parse errors;
\* a required option has default SUPPRESS, any other option default None.
BaseParse(p, av) ==
    LET given == {a \in Prefixes \X ServerFields : av[a[1]][a[2]] # Unset}
        known == {a \in Prefixes \X (ServerFields \cup {"url"}) : Registered(p, a[1], a[2])}
    IN IF \E a \in given : a \notin known
       THEN [status |-> "error", ns |-> <<>>, why |-> "unrecognized arguments"]
       ELSE IF \E a \in given : a[2] = "port" /\ ~ParsePort(av[a[1]][a[2]]).ok
       THEN [status |-> "error", ns |-> <<>>, why |-> "invalid int value"]
       ELSE IF \E a \in known : Required(p, a[1], a[2]) /\ a \notin given
       THEN [status |-> "error", ns |-> <<>>, why |-> "arguments are required"]
       ELSE [status |-> "ok", why |-> "",
             ns |-> [a \in known |->
                        IF a \notin given THEN Unset
                        ELSE IF a[2] = "port" THEN ParsePort(av[a[1]][a[2]]).num
                        ELSE av[a[1]][a[2]]]]

\* getattr(arguments, name, None)
GetAttr(ns, name) == IF name \in DOMAIN ns THEN ns[name] ELSE Unset

\* A variant of the loop of parse_args that overwrites an attribute that is
\* already present.
RECURSIVE AddUrls_Overwrite(_, _, _)
AddUrls_Overwrite(groups, i, ns) ==
    IF i > Len(groups) THEN [status |-> "ok", ns |-> ns, why |-> ""]
    ELSE LET prefix == groups[i].prefix
             server_url == URL_create(ns[Attr(prefix, "user")], ns[Attr(prefix, "password")],
                                      ns[Attr(prefix, "host")], ns[Attr(prefix, "port")],
                                      GetAttr(ns, Attr(prefix, "database")))
         IN AddUrls_Overwrite(groups, i + 1,
                [a \in DOMAIN ns \cup {Attr(prefix, "url")} |->
                    IF a = Attr(prefix, "url") THEN server_url ELSE ns[a]])

\* The loop of parse_args over the server groups, from group i on.
RECURSIVE AddUrls(_, _, _)
AddUrls(groups, i, ns) ==
    IF i > Len(groups) THEN [status |-> "ok", ns |-> ns, why |-> ""]
    ELSE LET prefix == groups[i].prefix
             server_url == URL_create(ns[Attr(prefix, "user")], ns[Attr(prefix, "password")],
                                      ns[Attr(prefix, "host")], ns[Attr(prefix, "port")],
                                      GetAttr(ns, Attr(prefix, "database")))
         IN IF Attr(prefix, "url") \in DOMAIN ns
            THEN [status |-> "error", ns |-> <<>>, why |-> "is already present"]
            ELSE AddUrls(groups, i + 1,
                    [a \in DOMAIN ns \cup {Attr(prefix, "url")} |->
                        IF a = Attr(prefix, "url") THEN server_url ELSE ns[a]])

SrvFrame ==
    UNCHANGED <<envVars, backend, lifeVars, raised, lastOp, connVars, nameVars, argVars, pathVars, logArgVars,
                logVars, factVars, loadVars>>

\* ArgumentParser.add_server_arguments: argparse refuses an option string that
\* is already there (conflict_handler "error"), before the prefix is recorded.
\* A parser is set up first and parses command lines afterwards.
add_server_arguments(prefix, include_database) ==
    /\ arguments.status = "none"
    /\ parser' = IF \E field \in ServerFields : Registered(parser, prefix, field)
                 THEN parser
                 ELSE [parser EXCEPT !.groups = Append(@, [prefix |-> prefix,
                                            include_database |-> include_database])]
    /\ UNCHANGED <<argv, arguments>>
    /\ SrvFrame

\* ArgumentParser.add_argument_url("--<prefix>url")
add_argument_url(prefix) ==
    /\ arguments.status = "none"
    /\ Attr(prefix, "url") \notin parser.dests
    /\ parser' = [parser EXCEPT !.dests = @ \cup {Attr(prefix, "url")}]
    /\ UNCHANGED <<argv, arguments>>
    /\ SrvFrame

\* ArgumentParser.parse_args
parse_args(av) ==
    /\ argv' = av
    /\ arguments' = LET base == BaseParse(parser, av)
                    IN IF base.status = "error" THEN base
                       ELSE AddUrls(parser.groups, 1, base.ns)
    /\ UNCHANGED parser
    /\ SrvFrame

SrvInit == NameInit

SrvNext ==
    \/ \E prefix \in Prefixes, include_database \in BOOLEAN :
          add_server_arguments(prefix, include_database)
    \/ \E prefix \in Prefixes : add_argument_url(prefix)
    \/ \E av \in Argvs : parse_args(av)

SrvSpec == SrvInit /\ [][SrvNext]_vars

\* ----------------------------------------------- logging arguments (argparse)
log_levels == {"DEBUG", "INFO", "WARNING", "ERROR", "CRITICAL"}

\* str.upper on the level texts of the model.
Upper(text) ==
    CASE text = "debug" -> "DEBUG"
      [] text = "Info" -> "INFO"
      [] text = "WARNING" -> "WARNING"
      [] text = "error" -> "ERROR"
      [] text = "critical" -> "CRITICAL"
      [] text = "warn" -> "WARN"
      [] text = "trace" -> "TRACE"
      [] OTHER -> text
LevelTexts == {"debug", "Info", "WARNING", "error", "critical", "warn", "trace"}

\* One option of a command line, with its value if it takes one.
LevelOptions == {"--verbose", "--debug", "--log"}
Tokens ==
    {[opt |-> "--verbose", val |-> ""], [opt |-> "--debug", val |-> ""]}
    \cup [opt : {"--log"}, val : LevelTexts]
    \cup [opt : {"--log_file_level"}, val : {"error", "trace"}]
CommandLines == UNION {[1..n -> Tokens] : n \in 0..MaxArgs}

\* The namespace before the first option: set_defaults(log_level="WARNING"),
\* and --log_file_level has default "DEBUG" when it is there.
LogDefaults(add_log_file) ==
    [status |-> "ok", log_level |-> "WARNING",
     log_file_level |-> IF add_log_file THEN "DEBUG" ELSE "", why |-> ""]

LogError(why) == [status |-> "error", log_level |-> "", log_file_level |-> "", why |-> why]

\* A variant of one option's turn that compares the text as typed with the
\* choices.
TakeAction_NoUpper(add_log_file, ns, seen, tok) ==
    IF tok.opt = "--log_file_level" /\ ~add_log_file
    THEN LogError("unrecognized arguments")
    ELSE IF tok.opt \in {"--log", "--log_file_level"} /\ tok.val \notin log_levels
    THEN LogError("invalid choice")
    ELSE IF tok.opt \in LevelOptions /\ seen \ {tok.opt} # {}
    THEN LogError("not allowed with argument")
    ELSE CASE tok.opt = "--verbose" -> [ns EXCEPT !.log_level = "INFO"]
           [] tok.opt = "--debug" -> [ns EXCEPT !.log_level = "DEBUG"]
           [] tok.opt = "--log" -> [ns EXCEPT !.log_level = tok.val]
           [] OTHER -> [ns EXCEPT !.log_file_level = tok.val]

\* One option's turn in argparse: the value is converted (type=str.upper) and
\* compared with the choices, then the option is refused if another option of
\* its mutually exclusive group was seen, then its action stores the value.
TakeAction(add_log_file, ns, seen, tok) ==
    IF tok.opt = "--log_file_level" /\ ~add_log_file
    THEN LogError("unrecognized arguments")
    ELSE IF tok.opt \in {"--log", "--log_file_level"} /\ Upper(tok.val) \notin log_levels
    THEN LogError("invalid choice")
    ELSE IF tok.opt \in LevelOptions /\ seen \ {tok.opt} # {}
    THEN LogError("not allowed with argument")
    ELSE CASE tok.opt = "--verbose" -> [ns EXCEPT !.log_level = "INFO"]
           [] tok.opt = "--debug" -> [ns EXCEPT !.log_level = "DEBUG"]
           [] tok.opt = "--log" -> [ns EXCEPT !.log_level = Upper(tok.val)]
           [] OTHER -> [ns EXCEPT !.log_file_level = Upper(tok.val)]

\* argparse over the options from position i on; the first error ends it.
RECURSIVE ParseLog(_, _, _, _, _)
ParseLog(add_log_file, args, i, ns, seen) ==
    IF i > Len(args) \/ ns.status = "error" THEN ns
    ELSE ParseLog(add_log_file, args, i + 1,
                  TakeAction(add_log_file, ns, seen, args[i]),
                  IF args[i].opt \in LevelOptions THEN seen \cup {args[i].opt} ELSE seen)

\* add_log_arguments on a new parser, followed by parse_args of the
\* program's command line.
add_log_arguments(add_log_file, args) ==
    /\ logNs.status = "none"
    /\ logCmd' = [add_log_file |-> add_log_file, args |-> args]
    /\ logNs' = ParseLog(add_log_file, args, 1, LogDefaults(add_log_file), {})
    /\ UNCHANGED <<envVars, backend, lifeVars, raised, lastOp, connVars, nameVars, argVars,
                   pathVars, srvVars, logVars, factVars, loadVars>>

LogArgInit == NameInit

LogArgNext ==
    \E add_log_file \in BOOLEAN, args \in CommandLines : add_log_arguments(add_log_file, args)

LogArgSpec == LogArgInit /\ [][LogArgNext]_vars

\* ---------------------------------------------------------------- logging
\* A LogLevel is an int or a str: its type and its value.
LevelName(s) == <<"str", s>>
LevelInt(n) == <<"int", n>>

\* logging._checkLevel: an int is taken as it is, a str must be the name of a
\* level; ok = FALSE is ValueError.
CheckLevel(level) ==
    IF level[1] = "int" THEN [ok |-> TRUE, no |-> level[2]]
    ELSE CASE level[2] = "DEBUG" -> [ok |-> TRUE, no |-> 10]
           [] level[2] = "INFO" -> [ok |-> TRUE, no |-> 20]
           [] level[2] = "WARNING" -> [ok |-> TRUE, no |-> 30]
           [] level[2] = "ERROR" -> [ok |-> TRUE, no |-> 40]
           [] level[2] = "CRITICAL" -> [ok |-> TRUE, no |-> 50]
           [] OTHER -> [ok |-> FALSE, no |-> 0]

LogLevels == {LevelName("WARNING"), LevelName("INFO"), LevelName("warning"), LevelInt(40)}
LogFileLevels == {LevelName("DEBUG"), LevelName("ERROR"), LevelName("debug")}
LogFiles == {Unset, "", "app.log"}

\* A handler: its class, its level, the file it writes, and the call of
\* init_logging that made it (0: made by other code).
Handler(cls, level, file, n) == [cls |-> cls, level |-> level, file |-> file, made |-> n]

\* logging.basicConfig(level="DEBUG", force=True): every handler of the root
\* logger is removed and closed, one StreamHandler (level NOTSET) is added and
\* the root level is set.
basicConfig(n) == [level |-> 10, handlers |-> <<Handler("StreamHandler", 0, "", n)>>]

\* A variant of init_logging whose basicConfig has no force=True: with a
\* handler in place it does nothing.
init_logging_NoForce(r, n, log_level, log_file, log_file_level) ==
    LET based == IF r.handlers = <<>> THEN basicConfig(n) ELSE r
        stream == CheckLevel(log_level)
        file == CheckLevel(log_file_level)
        first == [based EXCEPT !.handlers[1].level = stream.no]
    IN IF ~stream.ok THEN [root |-> based, raised |-> "ValueError"]
       ELSE IF log_file \in {Unset, ""} THEN [root |-> first, raised |-> NoErr]
       ELSE IF ~file.ok THEN [root |-> first, raised |-> "ValueError"]
       ELSE [root |-> [first EXCEPT !.handlers =
                          Append(@, Handler("FileHandler", file.no, log_file, n))],
             raised |-> NoErr]

\* init_logging as call number n on the root logger r: [root, raised].
init_logging(r, n, log_level, log_file, log_file_level) ==
    LET based == basicConfig(n)
        stream == CheckLevel(log_level)
        file == CheckLevel(log_file_level)
        first == [based EXCEPT !.handlers[1].level = stream.no]
    IN IF ~stream.ok THEN [root |-> based, raised |-> "ValueError"]
       ELSE IF log_file \in {Unset, ""} THEN [root |-> first, raised |-> NoErr]
       ELSE IF ~file.ok THEN [root |-> first, raised |-> "ValueError"]
       ELSE [root |-> [first EXCEPT !.handlers =
                          Append(@, Handler("FileHandler", file.no, log_file, n))],
             raised |-> NoErr]

LogFrame ==
    UNCHANGED <<envVars, backend, lifeVars, raised, lastOp, connVars, nameVars, argVars,
                pathVars, srvVars, logArgVars, factVars, loadVars>>

init_logging_call(log_level, log_file, log_file_level) ==
    /\ logCall.n < MaxLogCalls
    /\ LET out == init_logging(root, logCall.n + 1, log_level, log_file, log_file_level)
       IN /\ root' = out.root
          /\ logCall' = [n |-> logCall.n + 1, log_level |-> log_level, log_file |-> log_file,
                         log_file_level |-> log_file_level, raised |-> out.raised]
    /\ LogFrame

\* init_logging_with_args: the keys of the namespace among log_level, log_file
\* and log_file_level are passed on, the others take init_logging's defaults.
init_logging_with_args(keys, log_level, log_file, log_file_level) ==
    /\ logCall.n < MaxLogCalls
    /\ LET level == IF "log_level" \in keys THEN log_level ELSE LevelName("WARNING")
           file == IF "log_file" \in keys THEN log_file ELSE Unset
           file_level == IF "log_file_level" \in keys THEN log_file_level
                         ELSE LevelName("DEBUG")
           out == init_logging(root, logCall.n + 1, level, file, file_level)
       IN /\ root' = out.root
          /\ logCall' = [n |-> logCall.n + 1, log_level |-> level, log_file |-> file,
                         log_file_level |-> file_level, raised |-> out.raised]
    /\ LogFrame

\* Other code between two calls: it adds a handler of its own to the root
\* logger, or sets the root logger's level.
addHandler ==
    /\ Len(root.handlers) < 3
    /\ root' = [root EXCEPT !.handlers = Append(@, Handler("StreamHandler", 0, "", 0))]
    /\ UNCHANGED logCall
    /\ LogFrame

setLevel(level) ==
    /\ root.level # level
    /\ root' = [root EXCEPT !.level = level]
    /\ UNCHANGED logCall
    /\ LogFrame

LogInit == NameInit

LogNext ==
    \/ \E log_level \in LogLevels, log_file \in LogFiles, log_file_level \in LogFileLevels :
          init_logging_call(log_level, log_file, log_file_level)
    \/ \E keys \in SUBSET {"log_level", "log_file", "log_file_level"} :
          init_logging_with_args(keys, LevelName("INFO"), "app.log", LevelName("ERROR"))
    \/ addHandler
    \/ \E level \in {10, 30} : setLevel(level)

LogSpec == LogInit /\ [][LogNext]_vars

\* ------------------------------------------------- several UnitTestDB objects
\* The backend operations of a step, in order.
OpDrop(url) == [op |-> "drop", url |-> url]
OpCreate(url) == [op |-> "create", url |-> url]

\* UnitTestDB(server_url, dump_dir, name, metadata) on the backend be: the
\* backend afterwards, the exception if any, the new object's wrapper and the
\* backend operations made.
UnitTestDB_new(dia, be, dump, name, metadata, driverAccepts) ==
    LET url == DbUrl(dia, dump, name)
        be1 == CreateFresh(be, url)
        try == InitTry(dia, be1[url], dump, metadata, driverAccepts)
        be2 == [be1 EXCEPT ![url] = try[2]]
        fail == InitFailure(be2, url, try[1])
        meta == load_metadata(NewDbc(url), be2, {})
        fresh == (IF database_exists(be, url) THEN <<OpDrop(url)>> ELSE <<>>)
                    \o <<OpCreate(url)>>
    IN IF try[1] # NoErr
       THEN [backend |-> fail.backend, raised |-> fail.raised, dbc |-> NoDbc,
             ops |-> fresh \o <<OpDrop(url)>>]
       ELSE [backend |-> be2, raised |-> meta[1],
             dbc |-> IF meta[1] = NoErr THEN meta[2] ELSE NoDbc, ops |-> fresh]

\* An instance: its wrapper and whether drop() was called on it.
Inst(d) == [dbc |-> d, dropped |-> FALSE]
Live == {i \in DOMAIN insts : ~insts[i].dropped}

\* A test constructs a UnitTestDB itself.
UnitTestDB_construct(dump, name, metadata) ==
    /\ fixture = "none"
    /\ Len(insts) < MaxInsts
    /\ LET new == UnitTestDB_new(dialect, backend, dump, name, metadata, TRUE)
       IN /\ backend' = new.backend
          /\ insts' = IF new.raised = NoErr THEN Append(insts, Inst(new.dbc)) ELSE insts
          /\ factOp' = [NoFactOp EXCEPT !.op = "init", !.ops = new.ops, !.raised = new.raised,
                                        !.returned = IF new.raised = NoErr
                                                     THEN Len(insts) + 1 ELSE 0]
    /\ UNCHANGED <<created, fixture, keep_dbs>>
    /\ UNCHANGED <<envVars, lifeVars, raised, lastOp, connVars, nameVars, argVars,
                   pathVars, srvVars, logArgVars, logVars, loadVars>>

\* drop() on the i-th instance.
UnitTestDB_drop(i) ==
    /\ fixture = "none"
    /\ i \in Live
    /\ LET r == Drop(dialect, backend, insts[i].dbc)
       IN /\ backend' = r.backend
          /\ insts' = [insts EXCEPT ![i] = [dbc |-> r.dbc, dropped |-> TRUE]]
          /\ factOp' = [NoFactOp EXCEPT !.op = "drop", !.returned = i, !.raised = r.raised,
                                        !.ops = IF r.raised = NoErr
                                                THEN <<[op |-> "drop", url |-> insts[i].dbc.url]>>
                                                ELSE <<>>]
    /\ UNCHANGED <<created, fixture, keep_dbs>>
    /\ UNCHANGED <<envVars, lifeVars, raised, lastOp, connVars, nameVars, argVars,
                   pathVars, srvVars, logArgVars, logVars, loadVars>>

MultiDumps ==
    {NoDump,
     [given |-> TRUE, dir |-> "mock_db", hasSql |-> TRUE,
      stmts |-> <<[op |-> "create", table |-> "gibberish", ref |-> ""]>>,
      data |-> [t \in {"gibberish"} |-> {1}]],
     [given |-> TRUE, dir |-> "mock_db", hasSql |-> FALSE, stmts |-> <<>>,
      data |-> [t \in {} |-> {}]]}

MultiInit == Init /\ dialect = "sqlite"

MultiNext ==
    \/ \E dump \in MultiDumps, name \in Names, metadata \in {NoMetadata} :
          UnitTestDB_construct(dump, name, metadata)
    \/ \E i \in 1..MaxInsts : UnitTestDB_drop(i)

MultiSpec == MultiInit /\ [][MultiNext]_vars

\* ------------------------------------------------------ db_factory (plugin)
\* The src argument: None (""), a directory of data_dir that exists, or a
\* path that is not on disk.
Srcs == {"", "mock_db", "absent_db"}
SrcExists(src) == src = "mock_db"
\* The dump directory at an existing src.
SrcDump(src) ==
    [given |-> TRUE, dir |-> src, hasSql |-> TRUE,
     stmts |-> <<[op |-> "create", table |-> "gibberish", ref |-> ""]>>,
     data |-> [t \in {"gibberish"} |-> {1}]]
FactMetadatas == {NoMetadata, [given |-> TRUE, tables |-> {"other"}]}

\* db_key and dump_dir of _db_factory.
DbKey(src, name) ==
    IF src # ""
    THEN (IF name # "" THEN name ELSE src)
    ELSE (IF name # "" THEN name ELSE "dbkey")
DumpDir(src) == IF src # "" /\ SrcExists(src) THEN SrcDump(src) ELSE NoDump

CachedKeys == {created[i].key : i \in DOMAIN created}
Cached(key) == created[CHOOSE i \in DOMAIN created : created[i].key = key].id

FactFrame ==
    UNCHANGED <<envVars, lifeVars, raised, lastOp, connVars, nameVars, argVars,
                pathVars, srvVars, logArgVars, logVars, loadVars>>

\* The fixture up to its yield: an empty cache; --keep-dbs is given or not.
fixture_db_factory(keep) ==
    /\ fixture = "none"
    /\ fixture' = "active"
    /\ keep_dbs' = keep
    /\ created' = <<>>
    /\ UNCHANGED <<backend, insts, factOp>>
    /\ FactFrame

\* _db_factory(src, name, metadata): the UnitTestDB is constructed as the
\* argument of created.setdefault, that is, on every call; setdefault stores
\* it only under a new key, and returns what the cache holds.
db_factory(src, name, metadata) ==
    /\ fixture = "active"
    /\ Len(insts) < MaxInsts
    /\ LET db_key == DbKey(src, name)
           new == UnitTestDB_new(dialect, backend, DumpDir(src), name, metadata, TRUE)
           id == Len(insts) + 1
           hit == db_key \in CachedKeys
       IN /\ backend' = new.backend
          /\ IF new.raised # NoErr
             THEN /\ UNCHANGED <<insts, created>>
                  /\ factOp' = [op |-> "db_factory", key |-> db_key, cached |-> hit,
                                returned |-> 0, ops |-> new.ops, raised |-> new.raised]
             ELSE /\ insts' = Append(insts, Inst(new.dbc))
                  /\ created' = IF hit THEN created
                                ELSE Append(created, [key |-> db_key, id |-> id])
                  /\ factOp' = [op |-> "db_factory", key |-> db_key, cached |-> hit,
                                returned |-> IF hit THEN Cached(db_key) ELSE id,
                                ops |-> new.ops, raised |-> NoErr]
    /\ UNCHANGED <<fixture, keep_dbs>>
    /\ FactFrame

\* A test writes a row into the database of an instance it was given.
test_insert(i) ==
    /\ fixture = "active"
    /\ i \in Live
    /\ LET url == insts[i].dbc.url
       IN /\ database_exists(backend, url)
          /\ "gibberish" \in backend[url].tables
          /\ <<"gibberish", 2>> \notin backend[url].rows
          /\ backend' = [backend EXCEPT ![url].rows = @ \cup {<<"gibberish", 2>>}]
    /\ factOp' = [NoFactOp EXCEPT !.op = "insert", !.returned = i]
    /\ UNCHANGED <<insts, created, fixture, keep_dbs>>
    /\ FactFrame

\* "for test_db in created.values(): test_db.drop()" from entry i on: the
\* first drop that raises ends the loop.
RECURSIVE DropAll(_, _, _, _, _)
DropAll(dia, be, is, i, ops) ==
    IF i > Len(created) THEN [backend |-> be, insts |-> is, ops |-> ops, raised |-> NoErr]
    ELSE LET id == created[i].id
             r == Drop(dia, be, is[id].dbc)
         IN IF r.raised # NoErr
            THEN [backend |-> r.backend, insts |-> is, ops |-> ops, raised |-> r.raised]
            ELSE DropAll(dia, r.backend,
                         [is EXCEPT ![id] = [dbc |-> r.dbc, dropped |-> TRUE]],
                         i + 1, Append(ops, OpDrop(is[id].dbc.url)))

\* The fixture after its yield.
fixture_teardown ==
    /\ fixture = "active"
    /\ LET r == IF keep_dbs
                THEN [backend |-> backend, insts |-> insts, ops |-> <<>>, raised |-> NoErr]
                ELSE DropAll(dialect, backend, insts, 1, <<>>)
       IN /\ backend' = r.backend
          /\ insts' = r.insts
          /\ fixture' = IF r.raised = NoErr THEN "finished" ELSE "failed"
          /\ factOp' = [NoFactOp EXCEPT !.op = "teardown", !.ops = r.ops, !.raised = r.raised]
    /\ UNCHANGED <<created, keep_dbs>>
    /\ FactFrame

FactInit == NameInit

FactNext ==
    \/ \E keep \in BOOLEAN : fixture_db_factory(keep)
    \/ \E src \in Srcs, name \in Names, metadata \in FactMetadatas :
          db_factory(src, name, metadata)
    \/ \E i \in 1..MaxInsts : test_insert(i)
    \/ fixture_teardown

FactSpec == FactInit /\ [][FactNext]_vars

\* --------------------------------------------------- loading schema and data
\* UnitTestDB._load_schema_and_data on the database the constructor has just
\* created: the constructor calls it once.
load_schema_and_data_call(dia, dump_dir, metadata) ==
    /\ loadOut[1] = "unset"
    /\ loadArg' = [dialect |-> dia, dump_dir |-> dump_dir, metadata |-> metadata]
    /\ loadOut' = load_schema_and_data(dia, EmptyDb, dump_dir, metadata)
    /\ UNCHANGED <<envVars, backend, lifeVars, raised, lastOp, connVars, nameVars, argVars,
                   pathVars, srvVars, logArgVars, logVars, factVars>>

LoadInit == NameInit

LoadNext ==
    \E dia \in Dialects, dump_dir \in Dumps, metadata \in Metadatas :
        load_schema_and_data_call(dia, dump_dir, metadata)

LoadSpec == LoadInit /\ [][LoadNext]_vars

\* ------------------------------------------------------------- properties

\* C1: when the try block of the constructor raised (connecting, or loading
\* schema and data), an exception reaches the caller and the database the
\* constructor created does not exist afterwards.
C1_FailedSetupLeavesNoDatabase ==
    (lastOp = "init" /\ setupErr # NoErr)
        => (raised # NoErr /\ ~database_exists(backend, db_url))

C1_Witness ==
    /\ lastOp = "init" /\ setupErr = "FileNotFoundError"
    /\ raised = "FileNotFoundError" /\ ~database_exists(backend, db_url)

\* C2: whatever step of the construction fails after the database was
\* created, the final metadata refresh included, the database is deleted
\* before the error reaches the caller.
C2_AnyFailureLeavesNoDatabase ==
    (lastOp = "init" /\ raised # NoErr) => ~database_exists(backend, db_url)

\* C3: the error a failed setup hands to the caller is the one raised in the
\* try block, and the cleanup touches no database but the one just created.
C3_OriginalErrorReraised ==
    [][(lastOp' = "init" /\ setupErr' # NoErr)
         => /\ raised' = setupErr'
            /\ \A u \in DOMAIN backend : u # db_url' => backend'[u] = backend[u]]_vars

C3_Witness ==
    lastOp = "init" /\ setupErr = "ProgrammingError" /\ raised = "ProgrammingError"

\* C4: once drop() has returned, the database of the object does not exist
\* and the pool of its wrapper is disposed.
C4_DropLeavesNoDatabase ==
    (lastOp = "drop" /\ raised = NoErr)
        => (~database_exists(backend, dbc.url) /\ dbc.disposed)

C4_Witness ==
    /\ lastOp = "drop" /\ raised = NoErr /\ pc = "dropped"
    /\ ~database_exists(backend, dbc.url) /\ dbc.disposed

\* C5: __enter__ returns the object itself; after the with block, however
\* the body ended, the database is gone, the pool is disposed, and what
\* reaches the caller is exactly what left the body.
C5_WithBlockDrops ==
    /\ lastOp = "enter" => asTarget = self
    /\ lastOp = "exit" => /\ ~database_exists(backend, dbc.url)
                          /\ dbc.disposed
                          /\ raised = bodyExc

C5_Witness ==
    /\ lastOp = "exit" /\ bodyExc = "BodyError" /\ raised = "BodyError"
    /\ asTarget = self /\ ~database_exists(backend, dbc.url)

\* C6: after a successful construction the database exists and holds only
\* tables and rows that the arguments of this construction define, also when
\* a database of that name existed before.
C6_FreshDatabase ==
    (lastOp = "init" /\ pc = "ready")
        => /\ database_exists(backend, db_url)
           /\ backend[db_url].tables \subseteq inputTables
           /\ backend[db_url].rows \subseteq inputRows

C6_Witness ==
    /\ lastOp = "init" /\ pc = "ready"
    /\ prior.exists /\ prior.rows # {}
    /\ backend[db_url].tables # {}
    /\ backend[db_url].rows \cap prior.rows = {}

\* C7: session_scope commits when the body ended normally; when the body
\* raised it rolls back, never commits, and re-raises the same exception;
\* when its own commit raised it rolls back and raises that error; the
\* session is closed last on every path.
C7_SessionScopeProtocol ==
    lastOp = "session_scope"
        => /\ sess.closed
           /\ calls # <<>> /\ calls[Len(calls)] = "close"
           /\ scopeExc = NoErr => calls[1] = "commit"
           /\ (scopeExc = NoErr /\ raised = NoErr) => calls = <<"commit", "close">>
           /\ (scopeExc = NoErr /\ raised # NoErr)
                 => calls = <<"commit", "rollback", "close">>
           /\ scopeExc # NoErr
                 => /\ calls = <<"rollback", "close">>
                    /\ "commit" \notin Range(calls)
                    /\ raised = scopeExc

C7_Witness ==
    /\ lastOp = "session_scope" /\ scopeExc = "BodyError" /\ raised = "BodyError"
    /\ calls = <<"rollback", "close">> /\ sess.closed

\* C8 as stated: after a session_scope that ended with an exception, nothing
\* the scope changed is visible.
C8_NothingPersistsOnException ==
    (lastOp = "session_scope" /\ raised # NoErr) => Rows = entryRows

\* C8, amended: on a transactional backend, after a session_scope that ended
\* with an exception (the error of the commit at its exit included), the only
\* changes visible are those the body had itself committed with commit().
C8_UncommittedChangesDiscarded ==
    (lastOp = "session_scope" /\ raised # NoErr /\ transactional)
        => /\ entryRows \subseteq Rows
           /\ Rows \ entryRows \subseteq committed

\* The commit at the exit fails on one of several added rows, and none stays.
C8_Witness ==
    /\ lastOp = "session_scope" /\ transactional
    /\ scopeExc = NoErr /\ raised = "IntegrityError"
    /\ lastFlush >= 2 /\ committed = {}
    /\ Rows = entryRows

\* C9: inside a test_session_scope the rows the body committed are visible;
\* on a transactional backend, after the scope the database holds the rows it
\* held on entry, whatever the body committed.
C9_TestScopeLeavesNoChange ==
    /\ scope = "test" => committed \subseteq Rows
    /\ (lastOp = "test_session_scope" /\ transactional) => Rows = entryRows

C9_Witness ==
    /\ lastOp = "test_session_scope" /\ transactional
    /\ committed # {} /\ Rows = entryRows

\* C10: however the body of a test_session_scope ended, the scope closed the
\* session, then rolled the outer transaction back, then closed the
\* connection; the outer transaction is never committed, and no connection is
\* checked out outside a scope.
C10_TestScopeCleanup ==
    /\ outer.txn # "committed"
    /\ scope = "none" => ~outer.connOpen
    /\ lastOp = "test_session_scope"
          => /\ calls = <<"session.close", "transaction.rollback", "connection.close">>
             /\ sess.closed
             /\ outer.txn = "rolledback"
             /\ raised = scopeExc

C10_Witness ==
    /\ lastOp = "test_session_scope" /\ scopeExc = "IntegrityError"
    /\ raised = "IntegrityError" /\ outer.txn = "rolledback" /\ ~outer.connOpen

\* C11: after load_metadata() has returned, the snapshot holds exactly the
\* tables the backend holds at that moment: a table dropped since the
\* previous load is gone from it.
C11_LoadMetadataIsFresh ==
    (connOp.op = "load_metadata" /\ raised = NoErr)
        => dbc_tables(conns[connOp.w]) = backend[ConnUrl].tables

\* A table of the previous snapshot is no longer in the refreshed one.
C11_Witness ==
    /\ connOp.op = "load_metadata" /\ raised = NoErr
    /\ prevSnap \ dbc_tables(conns[connOp.w]) # {}
    /\ dbc_tables(conns[connOp.w]) = backend[ConnUrl].tables

\* C12: the snapshot of a wrapper changes only in a step that is a call of
\* load_metadata, create_table or create_all_tables on that wrapper; DDL
\* through a connection and operations on another wrapper leave it as it is.
C12_SnapshotChangesOnlyOnRefresh ==
    [][\A w \in ConnIds :
         (Built(w) /\ conns'[w] # conns[w])
            => /\ connOp'.w = w
               /\ connOp'.op \in {"load_metadata", "create_table", "create_all_tables"}]_vars

\* After DDL through a connection, a loaded snapshot differs from the backend.
C12_Witness ==
    /\ connOp.op = "execute" /\ raised = NoErr
    /\ \E w \in ConnIds :
          conns[w].loaded /\ dbc_tables(conns[w]) # backend[ConnUrl].tables

\* C13: get_columns and get_primary_key_columns raise KeyError exactly when
\* the table is not in the snapshot, whatever the backend holds; for a table
\* of the snapshot the primary-key columns are among the columns.
C13_ColumnLookups ==
    /\ connOp.op \in {"get_columns", "get_primary_key_columns"}
          => /\ connOp.table \notin dbc_tables(conns[connOp.w])
                   => (raised = "KeyError" /\ result.cols = <<>>)
             /\ connOp.table \in dbc_tables(conns[connOp.w])
                   => (raised = NoErr /\ result.cols # <<>>)
    /\ \A w \in ConnIds : \A t \in dbc_tables(conns[w]) :
          /\ get_columns(conns[w], t).err = NoErr
          /\ Range(get_primary_key_columns(conns[w], t).cols)
                \subseteq Range(get_columns(conns[w], t).cols)

\* A wrapper built with reflect=False fails the lookup of a table the
\* backend holds.
C13_Witness ==
    /\ connOp.op = "get_columns" /\ raised = "KeyError"
    /\ Built(connOp.w) /\ ~conns[connOp.w].loaded
    /\ connOp.table \in backend[ConnUrl].tables

\* C14: a wrapper constructed with reflect=True exposes the backend's tables
\* of that moment; one constructed with reflect=False exposes no table, and
\* keeps doing so as long as no metadata was loaded or set.
C14_ReflectOnConstruction ==
    /\ (connOp.op = "init_reflect" /\ raised = NoErr)
          => /\ conns[connOp.w].loaded
             /\ dbc_tables(conns[connOp.w]) = backend[ConnUrl].tables
    /\ connOp.op = "init"
          => (raised = NoErr /\ Built(connOp.w) /\ dbc_tables(conns[connOp.w]) = {})
    /\ \A w \in ConnIds : ~conns[w].loaded => dbc_tables(conns[w]) = {}

\* One wrapper built with reflection, then one without, on a database that
\* holds tables.
C14_Witness ==
    /\ connOp.op = "init" /\ backend[ConnUrl].tables # {}
    /\ dbc_tables(conns[connOp.w]) = {}
    /\ \E v \in ConnIds \ {connOp.w} :
          conns[v].loaded /\ dbc_tables(conns[v]) = backend[ConnUrl].tables

\* C15: create_table of a table the database already holds raises nothing
\* and leaves the database as it was.
C15_CreateExistingTableIsNoOp ==
    [][(connOp'.op = "create_table" /\ connOp'.table \in backend[ConnUrl].tables)
         => (raised' = NoErr /\ backend' = backend)]_vars

C17_DatabaseName ==
    nameArgs # NoNameArgs
       => LET n == IF nameArgs.name # "" THEN nameArgs.name
                   ELSE IF nameArgs.dump_dir # <<>>
                   THEN nameArgs.dump_dir[Len(nameArgs.dump_dir)]
                   ELSE "testdb"
              base == <<TEST_USERNAME, "_", n>>
          IN /\ nameArgs.dialect # "sqlite" => dbName = base
             /\ (nameArgs.dialect = "sqlite" /\ nameArgs.tmp_path = "")
                   => dbName = base \o <<".db">>
             /\ (nameArgs.dialect = "sqlite" /\ nameArgs.tmp_path # "")
                   => dbName = <<nameArgs.tmp_path, "/">> \o base \o <<".db">>

\* A name given next to a dump directory, for a sqlite file under tmp_path.
C17_Witness ==
    /\ nameArgs.dialect = "sqlite" /\ nameArgs.name = "renamed_db"
    /\ nameArgs.dump_dir = <<"data", "mock_db">> /\ nameArgs.tmp_path = "tmp_path"
    /\ dbName = <<"tmp_path", "/", TEST_USERNAME, "_", "renamed_db", ".db">>

\* C18: a drop() on an instance that was dropped before raises the
\* backend's error to the caller, changes nothing in the backend, and the
\* database stays absent.
C18_SecondDropRaises ==
    [][(pc = "dropped" /\ lastOp' = "drop")
         => /\ raised' \in {"FileNotFoundError", "OperationalError"}
            /\ backend' = backend
            /\ ~database_exists(backend', dbc'.url)]_vars

C18_Witness ==
    /\ lastOp = "drop" /\ pc = "dropped" /\ raised # NoErr
    /\ dbc.disposed /\ ~database_exists(backend, dbc.url)

\* C19: a ready object has a database that exists, was populated without
\* error and was reflected after that; the snapshot is loaded only when the
\* population succeeded; a dropped object has no database, and no step of a
\* dropped object brings the database back.
C19_LifecycleOrder ==
    /\ [](/\ pc = "ready"
             => /\ setupErr = NoErr /\ dbc.loaded
                /\ (lastOp = "init"
                       => /\ database_exists(backend, db_url)
                          /\ dbc.tables = backend[db_url].tables)
          /\ dbc.loaded => (setupErr = NoErr /\ pc \in {"ready", "dropped"})
          /\ pc = "failed" => dbc = NoDbc
          /\ pc = "dropped" => ~database_exists(backend, dbc.url))
    /\ [][pc = "dropped"
            => /\ pc' \in {"dropped", "none"}
               /\ \A u \in DOMAIN backend : ~backend[u].exists => ~backend'[u].exists]_vars

\* A dropped object on which drop() was called again.
C19_Witness ==
    /\ pc = "dropped" /\ lastOp = "drop" /\ raised # NoErr
    /\ setupErr = NoErr /\ dbc.loaded /\ dbc.tables # {}
    /\ ~database_exists(backend, dbc.url)

\* C20: a value is accepted exactly when it converts to the requested type
\* and the number lies in [min_value, max_value], a None bound being no
\* bound; the accepted result is the converted number.
C20_NumberAcceptedIffInRange ==
    parsed.status \in {"ok", "error"}
       => LET c == Convert(arg.type, arg.value)
              atLeastMin ==
                  \/ arg.min_value = None
                  \/ /\ c.num.k # "nan"
                     /\ \/ c.num.k = "inf"
                        \/ c.num.v >= arg.min_value.v
              atMostMax ==
                  \/ arg.max_value = None
                  \/ c.num.k = "fin" /\ c.num.v <= arg.max_value.v
          IN /\ parsed.status = "ok" <=> (c.ok /\ atLeastMin /\ atMostMax)
             /\ parsed.status = "ok" => parsed.value = c.num

\* C21: add_numeric_argument raises ArgumentError exactly when both bounds are
\* given and min_value is greater than max_value, and then the parser holds no
\* argument; with min_value equal to max_value the argument is added.
C21_BoundsCheckedAtDefinition ==
    arg.type # "" =>
        LET both == arg.min_value # None /\ arg.max_value # None
        IN /\ (parsed.status = "ArgumentError") <=> (both /\ Gt(arg.min_value, arg.max_value))
           /\ (parsed.status = "ArgumentError") => (registered = {})
           /\ (parsed.status # "ArgumentError") => (registered = {"--num"})
           /\ (both /\ arg.min_value = arg.max_value) => (registered = {"--num"})

C21_Witness ==
    /\ arg.type # "" /\ parsed.status = "ArgumentError" /\ registered = {}
    /\ arg.min_value # None /\ arg.max_value # None

C21_WitnessEqualBounds ==
    /\ arg.type # "" /\ arg.min_value # None /\ arg.min_value = arg.max_value
    /\ registered = {"--num"}

\* C22: a destination path is accepted exactly when it exists, is writable and
\* exists_ok is true, or it does not exist and its nearest existing ancestor
\* is writable; every other case ends in a parse error.
C22_DstPathAccepted ==
    dstResult.status # "none" =>
        LET fs == dstArg.fs
            existing == {i \in 2..Len(fs) : fs[i] # "missing"}
            nearest == CHOOSE i \in existing : \A j \in existing : i <= j
        IN /\ dstResult.status \in {"ok", "error"}
           /\ (dstResult.status = "ok") <=>
                  \/ fs[1] = "rw" /\ dstArg.exists_ok
                  \/ fs[1] = "missing" /\ fs[nearest] = "rw"
           /\ (fs[1] = "ro") => dstResult.status = "error"
           /\ (fs[1] = "rw" /\ ~dstArg.exists_ok) => dstResult.status = "error"
           /\ (fs[1] = "missing" /\ fs[nearest] = "ro") => dstResult.status = "error"

C22_Witness ==
    /\ dstResult.status = "ok"
    /\ dstArg.fs[1] = "missing" /\ dstArg.fs[2] = "missing"

C22_WitnessNearestDecides ==
    /\ dstResult.status = "ok"
    /\ dstArg.fs[1] = "missing" /\ dstArg.fs[2] = "rw" /\ dstArg.fs[PathDepth] = "ro"

\* C23: a parse that succeeds gives every server group an attribute
\* "<prefix>url" built from the user, password, host, port and (if the group
\* has one) database given for that prefix on the command line; when
\* "<prefix>url" is already among the parsed arguments the parse ends in an
\* error, and nothing is overwritten.
C23_UrlPerServerGroup ==
    arguments.status # "none" =>
        LET groups == Range(parser.groups)
            clash == \E g \in groups : Attr(g.prefix, "url") \in parser.dests
        IN /\ arguments.status = "ok" =>
                \A g \in groups :
                    /\ Attr(g.prefix, "url") \in DOMAIN arguments.ns
                    /\ arguments.ns[Attr(g.prefix, "url")] =
                          [drivername |-> "mysql",
                           username |-> argv[g.prefix].user,
                           password |-> argv[g.prefix].password,
                           host |-> argv[g.prefix].host,
                           port |-> ParsePort(argv[g.prefix].port).num,
                           database |-> IF g.include_database
                                        THEN argv[g.prefix].database ELSE Unset]
           /\ clash => arguments.status = "error"

C23_Witness ==
    /\ arguments.status = "ok"
    /\ Len(parser.groups) = 2
    /\ argv[""].host # argv["src_"].host
    /\ \E g \in Range(parser.groups) : g.include_database

C23_WitnessAlreadyPresent ==
    /\ arguments.status = "error" /\ arguments.why = "is already present"

\* C24: log_level is WARNING without a level option, INFO for --verbose, DEBUG
\* for --debug and the upper-cased LEVEL for --log LEVEL; two different level
\* options on one command line are a parse error, and so is a LEVEL that is
\* not, upper-cased, one of DEBUG, INFO, WARNING, ERROR and CRITICAL.
C24_LogLevelOptions ==
    logNs.status # "none" =>
        LET args == logCmd.args
            isLevel(tok) == tok.opt \in {"--verbose", "--debug", "--log"}
            levels == SelectSeq(args, isLevel)
            kinds == {levels[i].opt : i \in DOMAIN levels}
            five == {"DEBUG", "INFO", "WARNING", "ERROR", "CRITICAL"}
            badLevel == \E i \in DOMAIN levels :
                           levels[i].opt = "--log" /\ Upper(levels[i].val) \notin five
            others == \E i \in DOMAIN args : ~isLevel(args[i])
        IN /\ Cardinality(kinds) > 1 => logNs.status = "error"
           /\ badLevel => logNs.status = "error"
           /\ (Cardinality(kinds) <= 1 /\ ~badLevel /\ ~others) => logNs.status = "ok"
           /\ logNs.status = "ok" =>
                logNs.log_level =
                    CASE kinds = {} -> "WARNING"
                      [] kinds = {"--verbose"} -> "INFO"
                      [] kinds = {"--debug"} -> "DEBUG"
                      [] kinds = {"--log"} -> Upper(levels[Len(levels)].val)

C24_Witness ==
    /\ logNs.status = "ok" /\ logNs.log_level = "DEBUG"
    /\ Len(logCmd.args) = 1 /\ logCmd.args[1] = [opt |-> "--log", val |-> "debug"]

C24_WitnessExclusive ==
    /\ logNs.status = "error" /\ logNs.why = "not allowed with argument"
    /\ Len(logCmd.args) = 2 /\ logCmd.args[1].opt = "--verbose" /\ logCmd.args[2].opt = "--debug"

\* C25: whenever a call of init_logging has returned, the handlers of the root
\* logger are exactly the ones that call made, one stream handler at log_level
\* and, if and only if the call gave a log_file, one file handler at
\* log_file_level writing that file; the handlers that were there before the
\* call are gone, and the root logger's level is DEBUG.
C25_HandlersOfLastCall ==
    [][(logCall'.n # logCall.n /\ logCall'.raised = NoErr) =>
        LET c == logCall'
            hs == root'.handlers
            given == c.log_file \notin {Unset, ""}
        IN /\ root'.level = 10
           /\ Len(hs) = IF given THEN 2 ELSE 1
           /\ \A i \in DOMAIN hs : hs[i].made = c.n
           /\ hs[1].cls = "StreamHandler" /\ hs[1].level = CheckLevel(c.log_level).no
           /\ given => /\ hs[2].cls = "FileHandler" /\ hs[2].file = c.log_file
                        /\ hs[2].level = CheckLevel(c.log_file_level).no]_vars

C25_Witness ==
    /\ logCall.n = 2 /\ logCall.raised = NoErr /\ logCall.log_file = Unset
    /\ Len(root.handlers) = 1 /\ root.handlers[1].made = 2 /\ root.handlers[1].level = 20

C25_WitnessLogFile ==
    /\ logCall.n = 2 /\ logCall.raised = NoErr /\ logCall.log_file = "app.log"
    /\ Len(root.handlers) = 2

\* C26: while the db_factory fixture is active no database of an instance made
\* through the factory is dropped; when the fixture finishes, every database
\* made through the factory is gone unless --keep-dbs was given, and with
\* --keep-dbs none is dropped.
C26_DroppedAtTeardownOnly ==
    [][/\ (fixture = "active" /\ fixture' = "active") =>
            \A j \in DOMAIN factOp'.ops :
                factOp'.ops[j].op = "drop" =>
                    \A i \in DOMAIN insts : insts[i].dbc.url # factOp'.ops[j].url
       /\ (fixture = "active" /\ fixture' # "active") =>
            IF keep_dbs THEN backend' = backend
            ELSE \A i \in DOMAIN insts : ~database_exists(backend', insts[i].dbc.url)]_vars

\* C28: a call of db_factory with a key that is in the cache returns the
\* instance the cache holds and does nothing on the backend.
C28_CachedKeyIsNoOp ==
    [][(factOp'.op = "db_factory" /\ factOp'.cached /\ factOp' # factOp) =>
        /\ factOp'.returned = Cached(factOp'.key)
        /\ factOp'.ops = <<>>
        /\ backend' = backend]_vars

\* C29: two different keys of db_factory's cache hold instances on two
\* different backend databases.
C29_KeysHaveOwnDatabases ==
    \A i, j \in DOMAIN created :
        i # j => insts[created[i].id].dbc.url # insts[created[j].id].dbc.url

\* C30: two live instances (constructed, and not dropped) never refer to the
\* same backend database.
C30_LiveInstancesAreIsolated ==
    \A i, j \in Live : i # j => insts[i].dbc.url # insts[j].dbc.url

C27_WitnessNoSchemaFile ==
    /\ loadOut[1] = NoErr /\ loadArg.metadata.given /\ loadArg.dump_dir.given
    /\ ~loadArg.dump_dir.hasSql /\ loadOut[2].rows # {}

====
